---- MODULE Spec2Model ----
(***************************************************************************)
(* A model of the execution-environment abstraction of R2E-Gym:            *)
(*   src/src/r2egym/agenthub/runtime/base.py       ExecutionEnvironment    *)
(*   src/src/r2egym/agenthub/runtime/docker.py     DockerRuntime           *)
(*   src/src/r2egym/agenthub/runtime/apptainer.py  ApptainerRuntime        *)
(*                                                                         *)
(* Part 1 models one call of run / demux_run on each of the three          *)
(* backends: the caller thread, the single worker of the                   *)
(* ThreadPoolExecutor, the outer deadline of future.result and the         *)
(* classification of the exec primitive's outcome.                         *)
(* Parts 2-4 model the three reward strategies as functions of the parsed  *)
(* test report and of the task descriptor.                                 *)
(* Part 5 models the lifecycle of sessions (construction, reset, close),   *)
(* Part 6 the pod-creation loop of the cluster backend, Part 7 the search  *)
(* for the run script in the HPC adapter, Part 8 the patch operations.     *)
(* Part 9 models create_file, Part 10 the golden-patch driver, Part 11     *)
(* copy-in, Part 12 the bootstrap steps of setup_env, Part 13 the mode     *)
(* flags, Part 14 the start of a pod with its readiness wait.              *)
(* Part 15 models close on the cluster backend, Part 16 the source of the  *)
(* expected output of the default-mode reward, Part 17 the test-file reset *)
(* of the smith-generated reward, Part 18 the git helpers.                 *)
(***************************************************************************)
EXTENDS Integers, Sequences, FiniteSets, TLC

VARIABLES
    backend,     \* self.backend / the runtime class: docker, kubernetes, apptainer
    container,   \* "live" when the session holds a sandbox, "none" after a failed start
    method,      \* the method being called: run or demux_run
    timeout,     \* the call's timeout argument, in seconds
    pc,          \* caller: idle, waiting (future.result), shutdown (executor exit), returned
    worker,      \* the executor's worker: none, running, done
    execHangs,   \* the exec primitive of this call never returns by itself
    clock,       \* seconds elapsed since the call submitted its task
    future,      \* what the worker left in the future
    exc,         \* the exception raised inside the call's try block, "none" if none
    ret,         \* what the call returned (or that it raised)
    execs,       \* how often the call handed its command to the exec primitive
    mode,        \* the session's mode: none, r2e (default), swesmith, swebench
    getOutput,   \* the get_test_output argument of _calculate_reward
    parse,       \* the parsed test report (parse_logs / the log parser's result)
    expected,    \* default mode: the expected-output mapping
    f2p,         \* ds[FAIL_TO_PASS]
    p2p,         \* ds[PASS_TO_PASS]
    markers,     \* verified-benchmark mode: the failure markers present in the raw output
    verdict,     \* verified-benchmark mode: the collaborator's resolution status
    handed,      \* verified-benchmark mode: what was handed to the collaborator
    rpc,         \* reward computation: idle or done
    reward,      \* the value _calculate_reward returned
    session,     \* per session object: its state, pid, self.container_name, self.container
    world,       \* the control plane: the status of the sandbox of each name
    timeNow,     \* the reading of datetime.datetime.now()
    op,          \* the last lifecycle operation and how it ended
    create,      \* the pod-creation loop of _start_kubernetes_pod
    fs,          \* run_tests: the script files that exist in the sandbox
    dirs,        \* run_tests: self.alt_path and self.repo_path
    tests,       \* run_tests: the probes made, the scripts executed, the value returned
    tree,        \* the working tree of the repository in the sandbox
    patched,     \* apply_patch / reverse_patch: the patch and the calls made with it
    file,        \* create_file: the host and sandbox file systems and the call made
    driver,      \* time_golden_patch_execution: its position and its results
    copy,        \* copy_to_container: the attempts made and how the caller ended
    setup,       \* setup_env: the bootstrap steps issued and how setup ended
    flags,       \* the mode flags of a session and the strategies that acted on them
    pod,         \* _start_kubernetes_pod: the readiness wait and the failure cleanup
    stop,        \* _stop_kubernetes_pod: the requests issued and how close ended
    lookup,      \* default-mode reward: where the expected output comes from
    testReset,   \* smith-generated reward: the test-file reset and the script run
    git          \* the git helpers: the repository's commits and self.current_commit

runVars == <<backend, container, method, timeout, pc, worker, execHangs, clock, future, exc, ret,
            execs>>
rewardVars == <<mode, getOutput, parse, expected, f2p, p2p, markers, verdict, handed, rpc, reward>>
lifeVars == <<session, world, timeNow, op>>
testVars == <<fs, dirs, tests>>
patchVars == <<tree, patched>>
partVars == <<session, world, timeNow, op, create, fs, dirs, tests, tree, patched>>
lateVars == <<stop, lookup, testReset, git>>
moreVars == <<file, driver, copy, setup, flags, pod, stop, lookup, testReset, git>>
otherVars == <<session, world, timeNow, op, create, fs, dirs, tests, tree, patched,
               file, driver, copy, setup, flags, pod, stop, lookup, testReset, git>>
vars == <<backend, container, method, timeout, pc, worker, execHangs, clock, future, exc, ret, execs,
          mode, getOutput, parse, expected, f2p, p2p, markers, verdict, handed, rpc, reward,
          session, world, timeNow, op, create, fs, dirs, tests, tree, patched,
          file, driver, copy, setup, flags, pod, stop, lookup, testReset, git>>

(***************************************************************************)
(* Bounds of the model.                                                    *)
(***************************************************************************)
MaxOutLen == 3       \* longest stdout a command writes
MaxTimeout == 2      \* largest timeout argument

(***************************************************************************)
(* Program constants.                                                      *)
(***************************************************************************)
OuterMargin == 5         \* future.result(timeout=timeout + 5)
TimeoutSentinel == 124   \* exit status of the `timeout` wrapper

Backends == {"docker", "kubernetes", "apptainer"}
Methods == {"run", "demux_run"}

(***************************************************************************)
(* Text.  An output is a sequence of characters over a small alphabet:     *)
(* "ESC" is \x1b, "CR" is \r, "0" stands for the class [0-9;], "x" for any *)
(* other character.                                                        *)
(***************************************************************************)
Chars == {"ESC", "[", "0", "m", "CR", "x"}
Params == {"0"}

RECURSIVE SeqsUpTo(_, _)
SeqsUpTo(S, n) ==
    IF n = 0 THEN {<<>>}
    ELSE LET shorter == SeqsUpTo(S, n - 1)
         IN shorter \cup {Append(s, c) : s \in {x \in shorter : Len(x) = n - 1}, c \in S}

Stdouts == SeqsUpTo(Chars, MaxOutLen)
Stderrs == {<<>>, <<"CR">>, <<"x">>, <<"ESC", "[", "m">>}

RECURSIVE SkipParams(_, _)
SkipParams(s, i) ==
    IF i <= Len(s) /\ s[i] \in Params THEN SkipParams(s, i + 1) ELSE i

\* The index after a match of \x1b\[[0-9;]*m that starts at i, 0 if there is none.
SgrEnd(s, i) ==
    IF i + 1 <= Len(s) /\ s[i] = "ESC" /\ s[i + 1] = "["
    THEN LET j == SkipParams(s, i + 2)
         IN IF j <= Len(s) /\ s[j] = "m" THEN j + 1 ELSE 0
    ELSE 0

RECURSIVE NormFrom(_, _)
NormFrom(s, i) ==
    IF i > Len(s) THEN <<>>
    ELSE IF SgrEnd(s, i) # 0 THEN NormFrom(s, SgrEnd(s, i))
    ELSE IF s[i] = "CR" THEN NormFrom(s, i + 1)
    ELSE <<s[i]>> \o NormFrom(s, i + 1)

\* A mutant of the substitution: the "|\r" alternative is lost.
NormalizeKeepsCR(s) ==
    LET F[i \in 1..(Len(s) + 1)] ==
            IF i > Len(s) THEN <<>>
            ELSE IF SgrEnd(s, i) # 0 THEN F[SgrEnd(s, i)]
            ELSE <<s[i]>> \o F[i + 1]
    IN F[1]

\* re.sub(r"\x1b\[[0-9;]*m|\r", "", s): one left-to-right pass.
Normalize(s) ==
    NormFrom(s, 1)

(***************************************************************************)
(* Returned values.                                                        *)
(***************************************************************************)
Text(s) == [kind |-> "text", text |-> s, t |-> 0, exc |-> "none"]
\* f"The command took too long to execute (>{timeout}s)"
TooLong(t) == [kind |-> "too_long", text |-> <<>>, t |-> t, exc |-> "none"]
\* f"Error: {repr(e)}"
ErrorOut(e) == [kind |-> "error", text |-> <<>>, t |-> 0, exc |-> e]
\* f"Error executing command in pod: {repr(e)}"
PodErrorOut(e) == [kind |-> "pod_error", text |-> <<>>, t |-> 0, exc |-> e]

ExitCodeError(n) == "Error: Exit code " \o ToString(n)

Returned(outs, code) == [raised |-> FALSE, outs |-> outs, code |-> code]
Propagated(e) == [raised |-> TRUE, outs |-> <<ErrorOut(e)>>, code |-> ""]
NoReturn == [raised |-> FALSE, outs |-> <<>>, code |-> ""]

(***************************************************************************)
(* The future of the submitted task.                                       *)
(***************************************************************************)
NoFuture == [kind |-> "none", known |-> FALSE, code |-> 0, stdout |-> <<>>, stderr |-> <<>>, exc |-> "none"]
Pending == [kind |-> "pending", known |-> FALSE, code |-> 0, stdout |-> <<>>, stderr |-> <<>>, exc |-> "none"]
Abandoned == [kind |-> "abandoned", known |-> FALSE, code |-> 0, stdout |-> <<>>, stderr |-> <<>>, exc |-> "none"]
Result(known, code, out, err) ==
    [kind |-> "result", known |-> known, code |-> code, stdout |-> out, stderr |-> err, exc |-> "none"]
Raised(e) ==
    [kind |-> "exception", known |-> FALSE, code |-> 0, stdout |-> <<>>, stderr |-> <<>>, exc |-> e]

(***************************************************************************)
(* Part 1.  run and demux_run.                                             *)
(***************************************************************************)
ExitCodes == {0, 1, 2, TimeoutSentinel}
Timeouts == 1..MaxTimeout

\* docker.py 419 / 356, apptainer.py 415: the combined stream.
Combined(f) == f.stdout \o f.stderr

\* A mutant of the except clauses: run of the local engine loses its catch-all.
ExceptClausesNoCatchAll(b, m) ==
    IF m = "demux_run" THEN <<[class |-> "Exception", kind |-> "error"]>>
    ELSE IF b = "docker" THEN
        <<[class |-> "FuturesTimeoutError", kind |-> "too_long"]>>
    ELSE IF b = "kubernetes" THEN
        <<[class |-> "FuturesTimeoutError", kind |-> "too_long"],
          [class |-> "ApiException", kind |-> "pod_error"],
          [class |-> "Exception", kind |-> "error"]>>
    ELSE
        <<[class |-> "FuturesTimeoutError", kind |-> "too_long"],
          [class |-> "TimeoutExpired", kind |-> "too_long"],
          [class |-> "Exception", kind |-> "error"]>>

\* except clauses of each method, in source order.
ExceptClauses(b, m) ==
    IF m = "demux_run" THEN <<[class |-> "Exception", kind |-> "error"]>>
    ELSE IF b = "docker" THEN
        <<[class |-> "FuturesTimeoutError", kind |-> "too_long"],
          [class |-> "Exception", kind |-> "error"]>>
    ELSE IF b = "kubernetes" THEN
        <<[class |-> "FuturesTimeoutError", kind |-> "too_long"],
          [class |-> "ApiException", kind |-> "pod_error"],
          [class |-> "Exception", kind |-> "error"]>>
    ELSE
        <<[class |-> "FuturesTimeoutError", kind |-> "too_long"],
          [class |-> "TimeoutExpired", kind |-> "too_long"],
          [class |-> "Exception", kind |-> "error"]>>

IsInstance(e, class) == class = "Exception" \/ e = class

HandlerOut(kind, t, e) ==
    IF kind = "too_long" THEN TooLong(t)
    ELSE IF kind = "pod_error" THEN PodErrorOut(e)
    ELSE ErrorOut(e)

\* What the call returns when exception e is raised inside its try block.
Handle(b, m, t, e) ==
    LET cl == ExceptClauses(b, m)
        hits == {i \in 1..Len(cl) : IsInstance(e, cl[i].class)}
    IN IF hits = {} THEN Propagated(e)
       ELSE LET i == CHOOSE k \in hits : \A j \in hits : k <= j
                o == HandlerOut(cl[i].kind, t, e)
            IN Returned(IF m = "run" THEN <<o>> ELSE <<o, o>>, "-1")

\* A mutant of run's classification: the test for the sentinel 124 is lost.
ClassifyRunNoSentinel(b, t, f) ==
    IF b = "kubernetes" /\ ~f.known THEN Returned(<<Text(f.stdout \o f.stderr)>>, "-1")
    ELSE IF f.code # 0 THEN Returned(<<Text(f.stdout \o f.stderr)>>, ExitCodeError(f.code))
    ELSE Returned(<<Text(Normalize(f.stdout \o f.stderr))>>, ToString(f.code))

\* A mutant of run's classification: the output is normalized before the
\* exit code is looked at.
ClassifyRunNormalizesFirst(b, t, f) ==
    IF b = "kubernetes" /\ ~f.known THEN Returned(<<Text(f.stdout \o f.stderr)>>, "-1")
    ELSE IF f.code = TimeoutSentinel THEN Returned(<<TooLong(t)>>, "-1")
    ELSE IF f.code # 0
    THEN Returned(<<Text(Normalize(f.stdout \o f.stderr))>>, ExitCodeError(f.code))
    ELSE Returned(<<Text(Normalize(f.stdout \o f.stderr))>>, ToString(f.code))

\* run: the classification of a completed exec (docker.py 363-380, 419-433,
\* apptainer.py 415-430).
ClassifyRun(b, t, f) ==
    IF b = "kubernetes" /\ ~f.known THEN Returned(<<Text(Combined(f))>>, "-1")
    ELSE IF f.code = TimeoutSentinel THEN Returned(<<TooLong(t)>>, "-1")
    ELSE IF f.code # 0 THEN Returned(<<Text(Combined(f))>>, ExitCodeError(f.code))
    ELSE Returned(<<Text(Normalize(Combined(f)))>>, ToString(f.code))

\* demux_run: the classification of a completed exec (docker.py 457-471,
\* apptainer.py 471-480).
ClassifyDemux(b, t, f) ==
    IF b = "apptainer"
    THEN Returned(<<Text(Normalize(f.stdout)), Text(Normalize(f.stderr))>>, ToString(f.code))
    ELSE IF f.code # 0
    THEN Returned(<<Text(f.stdout), Text(f.stderr)>>, ExitCodeError(f.code))
    ELSE Returned(<<Text(f.stdout), Text(f.stderr)>>, ToString(f.code))

\* What the call returns once future.result has delivered f.
Outcome(b, m, t, f) ==
    IF f.kind = "exception" THEN Handle(b, m, t, f.exc)
    ELSE IF m = "run" THEN ClassifyRun(b, t, f)
    ELSE ClassifyDemux(b, t, f)

\* An exception raised before the task is submitted: self.container.exec_run
\* is looked up on None (no sandbox) or on a V1Pod (demux_run on the cluster).
PreSubmitError(b, c, m) ==
    IF b = "docker" /\ c = "none" THEN "AttributeError"
    ELSE IF b = "kubernetes" /\ m = "demux_run" THEN "AttributeError"
    ELSE "none"

\* The exceptions the exec primitive of each backend can raise in the worker.
WorkerExceptions(b) ==
    IF b = "docker" THEN {"APIError"}
    ELSE IF b = "kubernetes" THEN {"ApiException", "WebSocketError"}
    ELSE {"OSError"}

\* What the exec primitive can deliver at time c of a call with timeout t.
\* The `timeout t` wrapper yields 124 only once t seconds have passed.  With no
\* sandbox the cluster API answers 404 and `apptainer exec` fails by itself.
ExecResults(b, c, t, now) ==
    IF c = "none" /\ b = "kubernetes" THEN {Raised("ApiException")}
    ELSE IF c = "none" /\ b = "apptainer" THEN {Result(TRUE, 1, <<>>, e) : e \in Stderrs}
    ELSE {Result(TRUE, n, o, e) : n \in {k \in ExitCodes : k = TimeoutSentinel => now >= t},
                                   o \in Stdouts, e \in Stderrs}
         \cup (IF b = "kubernetes" THEN {Result(FALSE, 0, o, <<>>) : o \in Stdouts} ELSE {})
         \cup {Raised(e) : e \in WorkerExceptions(b)}

RunInit ==
    /\ backend \in Backends
    /\ container \in {"live", "none"}
    /\ method = "run"
    /\ timeout = 1
    /\ pc = "idle"
    /\ worker = "none"
    /\ execHangs = FALSE
    /\ clock = 0
    /\ future = NoFuture
    /\ exc = "none"
    /\ ret = NoReturn
    /\ execs = 0

RunIdle ==
    /\ backend = "docker"
    /\ container = "live"
    /\ method = "run"
    /\ timeout = 1
    /\ pc = "idle"
    /\ worker = "none"
    /\ execHangs = FALSE
    /\ clock = 0
    /\ future = NoFuture
    /\ exc = "none"
    /\ ret = NoReturn
    /\ execs = 0

\* The caller enters run / demux_run: it builds the command, opens the
\* single-worker executor and submits the exec call, then blocks in
\* future.result(timeout + 5).  A failing attribute lookup raises before the
\* submit and the call returns at once through its except clauses.
Call(m, t, hangs) ==
    /\ pc \in {"idle", "returned"}
    /\ method' = m
    /\ timeout' = t
    /\ clock' = 0
    /\ IF PreSubmitError(backend, container, m) # "none"
       THEN /\ exc' = PreSubmitError(backend, container, m)
            /\ ret' = Handle(backend, m, t, PreSubmitError(backend, container, m))
            /\ pc' = "returned"
            /\ worker' = "none"
            /\ execHangs' = FALSE
            /\ future' = NoFuture
            /\ execs' = 0
       ELSE /\ exc' = "none"
            /\ ret' = NoReturn
            /\ pc' = "waiting"
            /\ worker' = "running"
            /\ execHangs' = hangs
            /\ future' = Pending
            /\ execs' = 1
    /\ UNCHANGED <<backend, container>>
    /\ UNCHANGED rewardVars
    /\ UNCHANGED otherVars

\* A second passes while the worker is inside the exec primitive.
Tick ==
    /\ worker = "running"
    /\ clock < timeout + OuterMargin + 1
    /\ clock' = clock + 1
    /\ UNCHANGED <<backend, container, method, timeout, pc, worker, execHangs, future, exc, ret, execs>>
    /\ UNCHANGED rewardVars
    /\ UNCHANGED otherVars

\* The subprocess.run(timeout=timeout + 5) of the HPC adapter's worker.
WorkerDeadline(b, t, now) == b = "apptainer" /\ now >= t + OuterMargin

\* What the worker can leave in the future at time now.
WorkerOutcomes(b, c, t, now, hangs) ==
    (IF hangs \/ (b = "apptainer" /\ now > t + OuterMargin) THEN {} ELSE ExecResults(b, c, t, now))
    \cup (IF WorkerDeadline(b, t, now) THEN {Raised("TimeoutExpired")} ELSE {})

\* A mutant of FinishInTime: a command whose exec raised is submitted again.
FinishInTimeRetriesOnError ==
    /\ pc = "waiting"
    /\ worker = "running"
    /\ \E f \in WorkerOutcomes(backend, container, timeout, clock, execHangs) :
          IF f.kind = "exception" /\ execs < 2
          THEN /\ future' = Pending
               /\ exc' = "none"
               /\ ret' = NoReturn
               /\ worker' = "running"
               /\ pc' = "waiting"
               /\ execs' = execs + 1
          ELSE /\ future' = f
               /\ exc' = f.exc
               /\ ret' = Outcome(backend, method, timeout, f)
               /\ worker' = "done"
               /\ pc' = "returned"
               /\ execs' = execs
    /\ clock' = 0
    /\ UNCHANGED <<backend, container, method, timeout, execHangs>>
    /\ UNCHANGED rewardVars
    /\ UNCHANGED otherVars

\* The worker completes while the caller waits in future.result: the caller
\* leaves the executor (the worker is done) and classifies the outcome.
FinishInTime ==
    /\ pc = "waiting"
    /\ worker = "running"
    /\ \E f \in WorkerOutcomes(backend, container, timeout, clock, execHangs) :
          /\ future' = f
          /\ exc' = f.exc
          /\ ret' = Outcome(backend, method, timeout, f)
    /\ worker' = "done"
    /\ pc' = "returned"
    /\ clock' = 0
    /\ UNCHANGED <<backend, container, method, timeout, execHangs, execs>>
    /\ UNCHANGED rewardVars
    /\ UNCHANGED otherVars

\* A mutant of the outer deadline: the executor is left without waiting for
\* its worker and the call returns at once.
DeadlineFiresNoJoin ==
    /\ pc = "waiting"
    /\ worker = "running"
    /\ clock >= timeout + OuterMargin
    /\ exc' = "FuturesTimeoutError"
    /\ future' = Abandoned
    /\ ret' = Handle(backend, method, timeout, "FuturesTimeoutError")
    /\ pc' = "returned"
    /\ UNCHANGED <<backend, container, method, timeout, worker, execHangs, clock, execs>>
    /\ UNCHANGED rewardVars
    /\ UNCHANGED otherVars

\* future.result(timeout + 5) gives up: TimeoutError is raised inside the with
\* block, whose exit is executor.shutdown(wait=True).
DeadlineFires ==
    /\ pc = "waiting"
    /\ worker = "running"
    /\ clock >= timeout + OuterMargin
    /\ exc' = "FuturesTimeoutError"
    /\ pc' = "shutdown"
    /\ UNCHANGED <<backend, container, method, timeout, worker, execHangs, clock, future, ret, execs>>
    /\ UNCHANGED rewardVars
    /\ UNCHANGED otherVars

\* The worker completes while the caller is in executor.shutdown(wait=True):
\* its outcome is dropped, the TimeoutError reaches the except clauses.
FinishLate ==
    /\ pc = "shutdown"
    /\ worker = "running"
    /\ WorkerOutcomes(backend, container, timeout, clock, execHangs) # {}
    /\ future' = Abandoned
    /\ ret' = Handle(backend, method, timeout, exc)
    /\ worker' = "done"
    /\ pc' = "returned"
    /\ clock' = 0
    /\ UNCHANGED <<backend, container, method, timeout, execHangs, exc, execs>>
    /\ UNCHANGED rewardVars
    /\ UNCHANGED otherVars

\* No value: Python's None, as a name and as a sandbox handle.
None == <<>>

NoOp == [session |-> 0, kind |-> "none", raised |-> FALSE, exc |-> "none",
         startFailed |-> FALSE, faulty |-> FALSE, nameBefore |-> None]
NoCreate == [pc |-> "idle", attempt |-> 0, backoff |-> 0, calls |-> <<>>, slept |-> <<>>]
NoTests == [pc |-> "idle", method |-> "none", i |-> 0, probed |-> <<>>, delivered |-> <<>>,
            executed |-> <<>>, ret |-> NoReturn]
NoPatch == [patch |-> <<>>, calls |-> <<>>, before |-> <<>>, codes |-> <<>>]
NoFile == [pc |-> "idle"]
NoDriver == [pc |-> "idle"]
NoCopy == [pc |-> "idle"]
NoSetup == [pc |-> "idle"]
NoFlags == [pc |-> "idle"]
NoPod == [pc |-> "idle"]
NoCall == [pc |-> "idle"]

LifeIdle ==
    /\ session = <<>>
    /\ world = <<>>
    /\ timeNow = 0
    /\ op = NoOp

CreateIdle == create = NoCreate

TestsIdle ==
    /\ fs = {}
    /\ dirs = [alt_path |-> "/root", repo_path |-> "/testbed"]
    /\ tests = NoTests

PatchIdle ==
    /\ tree = <<>>
    /\ patched = NoPatch

LateIdle ==
    /\ stop = NoCall
    /\ lookup = NoCall
    /\ testReset = NoCall
    /\ git = NoCall

MoreIdle ==
    /\ LateIdle
    /\ file = NoFile
    /\ driver = NoDriver
    /\ copy = NoCopy
    /\ setup = NoSetup
    /\ flags = NoFlags
    /\ pod = NoPod

OtherIdle ==
    /\ LifeIdle
    /\ CreateIdle
    /\ TestsIdle
    /\ PatchIdle
    /\ MoreIdle

RewardIdle ==
    /\ mode = "none"
    /\ getOutput = FALSE
    /\ parse = <<>>
    /\ expected = <<>>
    /\ f2p = <<>>
    /\ p2p = <<>>
    /\ markers = {}
    /\ verdict = "none"
    /\ handed = <<>>
    /\ rpc = "idle"
    /\ reward = [value |-> 0, pair |-> FALSE]

Init ==
    /\ RunInit
    /\ RewardIdle
    /\ OtherIdle

Next ==
    \/ \E m \in Methods, t \in Timeouts, hangs \in BOOLEAN : Call(m, t, hangs)
    \/ Tick
    \/ FinishInTime
    \/ DeadlineFires
    \/ FinishLate

Spec == Init /\ [][Next]_vars

(***************************************************************************)
(* Part 2.  The default-mode reward, _calculate_reward_r2e.                *)
(* A key of a test report is a sequence of tokens; the token " - " is the  *)
(* delimiter of k.split(" - ").  The parsed and the expected mapping are   *)
(* the values after decolor_dict_keys.                                     *)
(***************************************************************************)
MaxEntries == 2      \* most entries of a parsed or expected mapping

Statuses == {"PASSED", "FAILED"}
R2EKeys == {<<>>, <<"a">>, <<"b">>, <<"a", " - ", "a">>, <<"a", " - ", "b">>, <<" - ", "a">>}

\* The mappings with at most n keys out of K.
Mappings(K, n) ==
    UNION {[D -> Statuses] : D \in {S \in SUBSET K : Cardinality(S) <= n}}

\* k.split(" - ")[0]
RECURSIVE TruncKey(_)
TruncKey(k) ==
    IF k = <<>> \/ Head(k) = " - " THEN <<>> ELSE <<Head(k)>> \o TruncKey(Tail(k))

\* The order of Python strings: " " sorts before every letter.
CharRank(c) == IF c = " - " THEN 0 ELSE IF c = "a" THEN 1 ELSE 2

RECURSIVE KeyLess(_, _)
KeyLess(x, y) ==
    IF x = <<>> THEN y # <<>>
    ELSE IF y = <<>> THEN FALSE
    ELSE IF Head(x) = Head(y) THEN KeyLess(Tail(x), Tail(y))
    ELSE CharRank(Head(x)) < CharRank(Head(y))

\* sorted(m.keys())
RECURSIVE SortedKeys(_)
SortedKeys(S) ==
    IF S = {} THEN <<>>
    ELSE LET least == CHOOSE k \in S : \A j \in S \ {k} : KeyLess(k, j)
         IN <<least>> \o SortedKeys(S \ {least})

\* A Python dict: its keys in insertion order and its values.
EmptyDict == [keys |-> <<>>, val |-> <<>>]
DictSet(d, k, v) ==
    [keys |-> IF k \in DOMAIN d.val THEN d.keys ELSE Append(d.keys, k),
     val |-> [x \in DOMAIN d.val \cup {k} |-> IF x = k THEN v ELSE d.val[x]]]

\* {k.split(" - ")[0]: m[k] for k in sorted(m.keys())}
RECURSIVE TruncateInto(_, _, _)
TruncateInto(d, ks, m) ==
    IF ks = <<>> THEN d
    ELSE TruncateInto(DictSet(d, TruncKey(Head(ks)), m[Head(ks)]), Tail(ks), m)

TruncateKeys(m) == TruncateInto(EmptyDict, SortedKeys(DOMAIN m), m)

\* The loop over parse.keys(): FALSE at the first key that is missing from
\* the expected mapping or differs in it; an empty key is skipped.
RECURSIVE MatchLoop(_, _, _)
MatchLoop(ks, p, e) ==
    IF ks = <<>> THEN TRUE
    ELSE IF Head(ks) = <<>> THEN MatchLoop(Tail(ks), p, e)
    ELSE IF Head(ks) \notin DOMAIN e THEN FALSE
    ELSE IF p[Head(ks)] # e[Head(ks)] THEN FALSE
    ELSE MatchLoop(Tail(ks), p, e)

\* A mutant of the default-mode reward: the comparison of the lengths is lost.
RewardR2ENoLengthCheck(parsed, exp) ==
    LET p == TruncateKeys(parsed)
        e == TruncateKeys(exp)
    IN IF MatchLoop(p.keys, p.val, e.val) THEN 1 ELSE 0

\* The reward of _calculate_reward_r2e for a parsed and an expected mapping.
RewardR2E(parsed, exp) ==
    LET p == TruncateKeys(parsed)
        e == TruncateKeys(exp)
    IN IF Len(p.keys) # Len(e.keys) THEN 0
       ELSE IF MatchLoop(p.keys, p.val, e.val) THEN 1 ELSE 0

\* What _calculate_reward hands back: the reward, paired with the raw output or not.
Reward(v, pair) == [value |-> v, pair |-> pair]

InitR2E ==
    /\ RunIdle
    /\ OtherIdle
    /\ mode = "r2e"
    /\ getOutput \in BOOLEAN
    /\ parse \in Mappings(R2EKeys, MaxEntries)
    /\ expected \in Mappings(R2EKeys, MaxEntries)
    /\ f2p = <<>>
    /\ p2p = <<>>
    /\ markers = {}
    /\ verdict = "none"
    /\ handed = <<>>
    /\ rpc = "idle"
    /\ reward = Reward(0, FALSE)

CalculateRewardR2E ==
    /\ mode = "r2e"
    /\ rpc = "idle"
    /\ reward' = Reward(RewardR2E(parse, expected), getOutput)
    /\ rpc' = "done"
    /\ UNCHANGED <<mode, getOutput, parse, expected, f2p, p2p, markers, verdict, handed>>
    /\ UNCHANGED runVars
    /\ UNCHANGED otherVars

NextR2E == CalculateRewardR2E

SpecR2E == InitR2E /\ [][NextR2E]_vars

(***************************************************************************)
(* Part 3.  The smith-generated reward, _calculate_reward_swesmith.        *)
(* The parsed report is a Python dict in insertion order: a sequence of    *)
(* entries with distinct keys.  An expected identifier "<file>::<test>" is *)
(* the sequence of its segments between "::".                              *)
(***************************************************************************)
MaxParsed == 2       \* most entries of the parsed report
MaxExpected == 1     \* most identifiers of FAIL_TO_PASS and of PASS_TO_PASS

SmithKeys == {<<"t">>, <<"u">>, <<"m", ".", "t">>, <<"n", ".", "t">>}
SmithLines ==
    {<< <<"f">>, <<"t">> >>, << <<"f">>, <<"u">> >>, << <<"f">>, <<"m">>, <<"t">> >>, << <<"f">> >>}

\* The sequences without repetition of at most n elements of S.
RECURSIVE Arrangements(_, _)
Arrangements(S, n) ==
    IF n = 0 THEN {<<>>}
    ELSE LET shorter == Arrangements(S, n - 1)
         IN shorter \cup {Append(q, x) : q \in {y \in shorter : Len(y) = n - 1}, x \in S}

Distinct(q) == \A i, j \in 1..Len(q) : i # j => q[i] # q[j]

\* The dicts over the keys ks, in that order, with every choice of statuses.
ReportsOver(ks) ==
    {[i \in 1..Len(ks) |-> [key |-> ks[i], status |-> st[i]]] : st \in [1..Len(ks) -> Statuses]}

SmithReports ==
    UNION {ReportsOver(ks) : ks \in {q \in Arrangements(SmithKeys, MaxParsed) : Distinct(q)}}

\* ".".join(segments)
RECURSIVE JoinDot(_)
JoinDot(segs) ==
    IF segs = <<>> THEN <<>>
    ELSE IF Len(segs) = 1 THEN Head(segs)
    ELSE Head(segs) \o <<".">> \o JoinDot(Tail(segs))

\* ".".join(line.split("::")[1:])
StripFile(line) == JoinDot(Tail(line))

\* [StripFile(line) for line in lines]
StripAll(lines) == [i \in 1..Len(lines) |-> StripFile(lines[i])]

\* test_name in k, for strings
IsSubstring(x, k) ==
    \E i \in 0..(Len(k) - Len(x)) : \A j \in 1..Len(x) : k[i + j] = x[j]

\* test_name in parse: the index of the entry with that key, 0 if there is none.
IndexOfKey(rep, name) ==
    IF \E i \in 1..Len(rep) : rep[i].key = name
    THEN CHOOSE i \in 1..Len(rep) : rep[i].key = name
    ELSE 0

\* next((k for k in parse.keys() if test_name in k), None), from entry i on:
\* the index of the first entry whose key contains the name, 0 for None.
RECURSIVE NextMatch(_, _, _)
NextMatch(rep, name, i) ==
    IF i > Len(rep) THEN 0
    ELSE IF IsSubstring(name, rep[i].key) THEN i
    ELSE NextMatch(rep, name, i + 1)

\* One round of either loop: FALSE when the loop body returns 0.0.
TestPasses(rep, name) ==
    IF IndexOfKey(rep, name) = 0
    THEN LET i == NextMatch(rep, name, 1)
         IN IF i = 0 THEN FALSE ELSE rep[i].status = "PASSED"
    ELSE rep[IndexOfKey(rep, name)].status = "PASSED"

\* for test_name in names: ... return 0.0
RECURSIVE AllPass(_, _)
AllPass(rep, names) ==
    IF names = <<>> THEN TRUE
    ELSE IF ~TestPasses(rep, Head(names)) THEN FALSE
    ELSE AllPass(rep, Tail(names))

\* A mutant of the smith-generated reward: the loop over pass2pass is lost.
RewardSwesmithNoPassToPass(rep, fail, pass) ==
    IF rep = <<>> THEN 0
    ELSE IF ~AllPass(rep, StripAll(fail)) THEN 0
    ELSE 1

\* The reward of _calculate_reward_swesmith.
RewardSwesmith(rep, fail, pass) ==
    IF rep = <<>> THEN 0
    ELSE IF ~AllPass(rep, StripAll(fail)) THEN 0
    ELSE IF ~AllPass(rep, StripAll(pass)) THEN 0
    ELSE 1

InitSwesmith ==
    /\ RunIdle
    /\ OtherIdle
    /\ mode = "swesmith"
    /\ getOutput \in BOOLEAN
    /\ parse \in SmithReports
    /\ expected = <<>>
    /\ f2p \in Arrangements(SmithLines, MaxExpected)
    /\ p2p \in Arrangements(SmithLines, MaxExpected)
    /\ markers = {}
    /\ verdict = "none"
    /\ handed = <<>>
    /\ rpc = "idle"
    /\ reward = Reward(0, FALSE)

\* _calculate_reward_swesmith returns the bare reward whatever get_test_output is.
CalculateRewardSwesmith ==
    /\ mode = "swesmith"
    /\ rpc = "idle"
    /\ reward' = Reward(RewardSwesmith(parse, f2p, p2p), FALSE)
    /\ rpc' = "done"
    /\ UNCHANGED <<mode, getOutput, parse, expected, f2p, p2p, markers, verdict, handed>>
    /\ UNCHANGED runVars
    /\ UNCHANGED otherVars

NextSwesmith == CalculateRewardSwesmith

SpecSwesmith == InitSwesmith /\ [][NextSwesmith]_vars

(***************************************************************************)
(* Part 4.  The verified-benchmark reward, _calculate_reward_swebench.     *)
(* The log parser and the grading functions are external collaborators:    *)
(* the parser's status map and the resolution status are inputs.           *)
(***************************************************************************)
MaxTests == 2        \* most test identifiers of a benchmark instance

\* APPLY_PATCH_FAIL, RESET_FAILED, TESTS_ERROR, TESTS_TIMEOUT
FailureMarkers == {"APPLY_PATCH_FAIL", "RESET_FAILED", "TESTS_ERROR", "TESTS_TIMEOUT"}
\* ResolvedStatus: FULL, PARTIAL, NO
ResolvedStatuses == {"RESOLVED_FULL", "RESOLVED_PARTIAL", "RESOLVED_NO"}
BenchTests == {"test" \o ToString(i) : i \in 1..MaxTests}
BenchStatusMaps == UNION {[D -> Statuses] : D \in SUBSET BenchTests}

\* A mutant of get_logs_eval: the failure markers are not looked for.
GetLogsEvalIgnoresMarkers(bad, parsed) ==
    [map |-> parsed, found |-> TRUE]

\* get_logs_eval(test_spec, content): bad are the failure markers found in
\* content, parsed is what the log parser makes of content.
GetLogsEval(bad, parsed) ==
    IF bad # {} THEN [map |-> <<>>, found |-> FALSE]
    ELSE [map |-> parsed, found |-> TRUE]

\* The evaluation reference built from the test spec.
EvalRef(fail, pass) ==
    [instance_id |-> "instance", FAIL_TO_PASS |-> fail, PASS_TO_PASS |-> pass]

\* A mutant of the success test: a partial resolution counts as well.
IsResolvedOrPartial(status) ==
    status \in {"RESOLVED_FULL", "RESOLVED_PARTIAL"}

\* get_resolution_status(report) == ResolvedStatus.FULL.value
IsResolved(status) ==
    status = "RESOLVED_FULL"

InitSwebench ==
    /\ RunIdle
    /\ OtherIdle
    /\ mode = "swebench"
    /\ getOutput \in BOOLEAN
    /\ parse \in BenchStatusMaps
    /\ expected = <<>>
    /\ f2p \in SUBSET BenchTests
    /\ p2p \in SUBSET BenchTests
    /\ markers \in SUBSET FailureMarkers
    /\ verdict = "none"
    /\ handed = <<>>
    /\ rpc = "idle"
    /\ reward = Reward(0, FALSE)

\* _calculate_reward_swebench: status is the resolution status the grading
\* collaborator computes from what it is handed.
CalculateRewardSwebench(status) ==
    /\ mode = "swebench"
    /\ rpc = "idle"
    /\ handed' = [map |-> GetLogsEval(markers, parse).map, ref |-> EvalRef(f2p, p2p)]
    /\ verdict' = status
    /\ reward' = Reward(IF IsResolved(status) THEN 1 ELSE 0, getOutput)
    /\ rpc' = "done"
    /\ UNCHANGED <<mode, getOutput, parse, expected, f2p, p2p, markers>>
    /\ UNCHANGED runVars
    /\ UNCHANGED otherVars

NextSwebench == \E status \in ResolvedStatuses : CalculateRewardSwebench(status)

SpecSwebench == InitSwebench /\ [][NextSwebench]_vars

(***************************************************************************)
(* Part 5.  The lifecycle of sessions: construction, reset and close on    *)
(* the three backends.  The control plane is the world: for every name,    *)
(* whether a sandbox of that name is absent, running, or present but not   *)
(* running.  A primitive of the control plane named in `faults` fails      *)
(* whenever the operation calls it.                                        *)
(***************************************************************************)
MaxSessions == 2     \* session objects of the process
MaxClock == 1        \* the readings 0..MaxClock of the clock

Sessions == 1..MaxSessions
Pids == {1, 2}
ClockReadings == 0..MaxClock
Image == "img"

\* _get_container_name: the sanitized image name and the first ten hex digits
\* of sha256(str(now) + str(pid)); the digest is taken to be collision-free.
GetContainerName(image, time, pid) == <<image, time, pid>>

\* str(uuid.uuid4()), drawn once by each session object of the cluster backend.
Uuid4(s) == <<"uuid", s, 0>>

Names ==
    {GetContainerName(Image, t, p) : t \in ClockReadings, p \in Pids} \cup {Uuid4(s) : s \in Sessions}

\* The primitives of each control plane that can fail.
Primitives(b) ==
    IF b = "docker" THEN {"list", "start", "run", "stop", "remove"}
    ELSE IF b = "kubernetes" THEN {"read", "create", "watch", "status", "delete"}
    ELSE {"instance_start", "instance_stop"}

Unbuilt == [state |-> "unbuilt", pid |-> 0, container_name |-> None, container |-> None, made |-> {}]

\* DockerRuntime.stop_container / ApptainerRuntime.stop_container: the session
\* fields and the world afterwards.  Neither raises.
StopContainer(b, ses, w, faults) ==
    IF b = "docker" THEN
        [ses |-> ses,
         world |-> IF ses.container = None THEN w
                   ELSE IF "stop" \in faults \/ w[ses.container] = "absent" THEN w
                   ELSE IF "remove" \in faults THEN [w EXCEPT ![ses.container] = "exited"]
                   ELSE [w EXCEPT ![ses.container] = "absent"]]
    ELSE IF b = "kubernetes" THEN
        [ses |-> ses,
         world |-> IF ses.container = None \/ "delete" \in faults THEN w
                   ELSE [w EXCEPT ![ses.container_name] = "absent"]]
    ELSE
        IF ses.container_name = None THEN [ses |-> ses, world |-> w]
        ELSE [ses |-> [ses EXCEPT !.container = None, !.container_name = None],
              world |-> IF "instance_stop" \in faults THEN w
                        ELSE [w EXCEPT ![ses.container_name] = "absent"]]

\* The try block of DockerRuntime.start_container on the docker backend.
TryStartDocker(ses, name, w, faults) ==
    IF "list" \in faults THEN [ses |-> ses, world |-> w, exc |-> "APIError"]
    ELSE IF w[name] # "absent" THEN
        IF w[name] # "running" /\ "start" \in faults
        THEN [ses |-> [ses EXCEPT !.container = name], world |-> w, exc |-> "APIError"]
        ELSE [ses |-> [ses EXCEPT !.container = name, !.made = @ \cup {name}],
              world |-> [w EXCEPT ![name] = "running"], exc |-> "none"]
    ELSE IF "run" \in faults THEN [ses |-> ses, world |-> w, exc |-> "APIError"]
    ELSE [ses |-> [ses EXCEPT !.container = name, !.made = @ \cup {name}],
          world |-> [w EXCEPT ![name] = "running"], exc |-> "none"]

\* _start_kubernetes_pod: an existing pod is taken over; otherwise the pod is
\* created and awaited, with one status read when the watch fails.
StartKubernetesPod(ses, name, w, faults) ==
    IF "read" \in faults THEN [ses |-> ses, world |-> w, exc |-> "ApiException"]
    ELSE IF w[name] # "absent"
    THEN [ses |-> [ses EXCEPT !.container = name, !.made = @ \cup {name}], world |-> w, exc |-> "none"]
    ELSE IF "create" \in faults THEN [ses |-> ses, world |-> w, exc |-> "ApiException"]
    ELSE IF "watch" \in faults /\ "status" \in faults
    THEN [ses |-> [ses EXCEPT !.made = @ \cup {name}],
          world |-> [w EXCEPT ![name] = "exited"], exc |-> "RuntimeError"]
    ELSE [ses |-> [ses EXCEPT !.container = name, !.made = @ \cup {name}],
          world |-> [w EXCEPT ![name] = "running"], exc |-> "none"]

\* start_container(image, command, name): the session fields and the world
\* afterwards, the exception of the start (startExc) and whether it is raised
\* to the caller.
StartContainer(b, ses, name, w, faults) ==
    IF b = "apptainer" THEN
        IF name = None
        THEN [ses |-> ses, world |-> w, startExc |-> "TypeError", raised |-> TRUE]
        ELSE IF "instance_start" \in faults \/ w[name] = "running"
        THEN [ses |-> ses, world |-> w, startExc |-> "RuntimeError", raised |-> TRUE]
        ELSE [ses |-> [ses EXCEPT !.container = name, !.container_name = name, !.made = @ \cup {name}],
              world |-> [w EXCEPT ![name] = "running"], startExc |-> "none", raised |-> FALSE]
    ELSE
        LET try == IF b = "docker" THEN TryStartDocker(ses, name, w, faults)
                   ELSE StartKubernetesPod(ses, name, w, faults)
            cleanup == StopContainer(b, try.ses, try.world, faults)
        IN IF try.exc = "none"
           THEN [ses |-> try.ses, world |-> try.world, startExc |-> "none", raised |-> FALSE]
           ELSE [ses |-> cleanup.ses, world |-> cleanup.world, startExc |-> try.exc, raised |-> FALSE]

\* What the constructor raises after start_container returned: the docker
\* backend logs self.container.id.
AfterStart(b, ses) ==
    IF b = "docker" /\ ses.container = None THEN "AttributeError" ELSE "none"

LifeInit ==
    /\ MoreIdle
    /\ backend \in Backends
    /\ container = "live"
    /\ method = "run"
    /\ timeout = 1
    /\ pc = "idle"
    /\ worker = "none"
    /\ execHangs = FALSE
    /\ clock = 0
    /\ future = NoFuture
    /\ exc = "none"
    /\ ret = NoReturn
    /\ execs = 0
    /\ RewardIdle
    /\ session = [s \in Sessions |-> Unbuilt]
    /\ world = [n \in Names |-> "absent"]
    /\ timeNow = 0
    /\ op = NoOp
    /\ CreateIdle
    /\ TestsIdle
    /\ PatchIdle

\* DockerRuntime.__init__ / ApptainerRuntime.__init__ in process pid.
Construct(s, pid, faults) ==
    /\ session[s].state = "unbuilt"
    /\ LET name == IF backend = "kubernetes" THEN Uuid4(s)
                   ELSE GetContainerName(Image, timeNow, pid)
           fresh == [Unbuilt EXCEPT !.pid = pid, !.container_name = name]
           r == StartContainer(backend, fresh, name, world, faults)
           late == AfterStart(backend, r.ses)
           failed == r.raised \/ late # "none"
       IN /\ session' = [session EXCEPT ![s] = [r.ses EXCEPT !.state = IF failed THEN "failed" ELSE "alive"]]
          /\ world' = r.world
          /\ op' = [session |-> s, kind |-> "construct", raised |-> failed,
                    exc |-> IF r.raised THEN r.startExc ELSE late,
                    startFailed |-> r.startExc # "none", faulty |-> faults # {},
                    nameBefore |-> name]
    /\ UNCHANGED <<timeNow, create>>
    /\ UNCHANGED <<testVars, patchVars, runVars, rewardVars, moreVars>>

\* DockerRuntime.reset / ExecutionEnvironment.reset
Reset(s, faults) ==
    /\ session[s].state = "alive"
    /\ LET stopped == StopContainer(backend, session[s], world, faults)
           r == StartContainer(backend, stopped.ses, stopped.ses.container_name, stopped.world, faults)
       IN /\ session' = [session EXCEPT ![s] = r.ses]
          /\ world' = r.world
          /\ op' = [session |-> s, kind |-> "reset", raised |-> r.raised, exc |-> r.startExc,
                    startFailed |-> r.startExc # "none", faulty |-> faults # {},
                    nameBefore |-> session[s].container_name]
    /\ UNCHANGED <<timeNow, create>>
    /\ UNCHANGED <<testVars, patchVars, runVars, rewardVars, moreVars>>

\* DockerRuntime.close / ApptainerRuntime.close
Close(s, faults) ==
    /\ session[s].state = "alive"
    /\ LET stopped == StopContainer(backend, session[s], world, faults)
       IN /\ session' = [session EXCEPT ![s] = [stopped.ses EXCEPT !.state = "closed"]]
          /\ world' = stopped.world
          /\ op' = [session |-> s, kind |-> "close", raised |-> FALSE, exc |-> "none",
                    startFailed |-> FALSE, faulty |-> faults # {},
                    nameBefore |-> session[s].container_name]
    /\ UNCHANGED <<timeNow, create>>
    /\ UNCHANGED <<testVars, patchVars, runVars, rewardVars, moreVars>>

\* The clock moves on to its next reading.
ClockAdvances ==
    /\ timeNow < MaxClock
    /\ timeNow' = timeNow + 1
    /\ UNCHANGED <<session, world, op, create>>
    /\ UNCHANGED <<testVars, patchVars, runVars, rewardVars, moreVars>>

LifeNext ==
    \/ \E s \in Sessions, pid \in Pids, faults \in SUBSET Primitives(backend) : Construct(s, pid, faults)
    \/ \E s \in Sessions, faults \in SUBSET Primitives(backend) : Reset(s, faults)
    \/ \E s \in Sessions, faults \in SUBSET Primitives(backend) : Close(s, faults)
    \/ ClockAdvances

SpecLife == LifeInit /\ [][LifeNext]_vars

(***************************************************************************)
(* Part 6.  The pod-creation loop of _start_kubernetes_pod.  Every call of *)
(* create_namespaced_pod is one step; its answer is 201 or the status of   *)
(* the ApiException it raises.                                             *)
(***************************************************************************)
MaxRetries == 5          \* max_retries = 5
InitialBackoff == 5      \* backoff = 5
MaxBackoff == 60         \* min(backoff * 2, 60)

TransientStatuses == {409, 429, 500, 503}
ApiStatuses == {201, 400, 403, 409, 429, 500, 503}

Min(a, b) == IF a < b THEN a ELSE b

\* A mutant of the loop body: the delay doubles without its cap.
AfterCreateCallNoCap(c, status) ==
    IF status = 201
    THEN [c EXCEPT !.pc = "created", !.calls = Append(@, status)]
    ELSE IF status \in TransientStatuses
    THEN [c EXCEPT !.pc = IF c.attempt = MaxRetries THEN "retry_limit" ELSE "loop",
                   !.attempt = IF c.attempt = MaxRetries THEN @ ELSE @ + 1,
                   !.backoff = @ * 2,
                   !.calls = Append(@, status),
                   !.slept = Append(@, c.backoff)]
    ELSE [c EXCEPT !.pc = "api_error", !.calls = Append(@, status)]

\* A mutant of the loop body: every error status is retried.
AfterCreateCallRetriesAll(c, status) ==
    IF status = 201
    THEN [c EXCEPT !.pc = "created", !.calls = Append(@, status)]
    ELSE [c EXCEPT !.pc = IF c.attempt = MaxRetries THEN "retry_limit" ELSE "loop",
                   !.attempt = IF c.attempt = MaxRetries THEN @ ELSE @ + 1,
                   !.backoff = Min(@ * 2, MaxBackoff),
                   !.calls = Append(@, status),
                   !.slept = Append(@, c.backoff)]

\* One round of `for attempt in range(1, max_retries + 1)`: the call, and what
\* the except clause and the loop's else clause make of its answer.
AfterCreateCall(c, status) ==
    IF status = 201
    THEN [c EXCEPT !.pc = "created", !.calls = Append(@, status)]
    ELSE IF status \in TransientStatuses
    THEN [c EXCEPT !.pc = IF c.attempt = MaxRetries THEN "retry_limit" ELSE "loop",
                   !.attempt = IF c.attempt = MaxRetries THEN @ ELSE @ + 1,
                   !.backoff = Min(@ * 2, MaxBackoff),
                   !.calls = Append(@, status),
                   !.slept = Append(@, c.backoff)]
    ELSE [c EXCEPT !.pc = "api_error", !.calls = Append(@, status)]

InitCreate ==
    /\ RunIdle
    /\ MoreIdle
    /\ RewardIdle
    /\ LifeIdle
    /\ TestsIdle
    /\ PatchIdle
    /\ create = [pc |-> "loop", attempt |-> 1, backoff |-> InitialBackoff, calls |-> <<>>, slept |-> <<>>]

CreateCall(status) ==
    /\ create.pc = "loop"
    /\ create' = AfterCreateCall(create, status)
    /\ UNCHANGED <<lifeVars, testVars, patchVars, runVars, rewardVars, moreVars>>

NextCreate == \E status \in ApiStatuses : CreateCall(status)

SpecCreate == InitCreate /\ [][NextCreate]_vars

(***************************************************************************)
(* Part 7.  run_tests and demux_run_tests of the HPC adapter: the search   *)
(* for the run script.  Every probe and the execution of the script are    *)
(* calls of run / demux_run, classified as in Part 1.                      *)
(***************************************************************************)
AltPaths == {"/root", "/"}
RepoPaths == {"/testbed", "/repo"}
Files ==
    {"/root/run_tests.sh", "/run_tests.sh", "/tmp/run_tests.sh", "/testbed/run_tests.sh",
     "/repo/run_tests.sh"}

\* test_script_locations
TestScriptLocations(d) ==
    <<d.alt_path \o "/run_tests.sh", "/run_tests.sh", "/tmp/run_tests.sh",
      "/testbed/run_tests.sh", d.repo_path \o "/run_tests.sh">>

\* The file a path names in the sandbox: "//run_tests.sh" is "/run_tests.sh".
Canonical(path) == IF path = "//run_tests.sh" THEN "/run_tests.sh" ELSE path

\* What the exec primitive can deliver for `test -f path && echo 'exists'`.
ProbeFutures(present) ==
    (IF present THEN {Result(TRUE, 0, <<"exists">>, <<>>)} ELSE {Result(TRUE, 1, <<>>, <<>>)})
    \cup {Result(TRUE, TimeoutSentinel, <<>>, <<>>), Raised("OSError")}

\* What the exec primitive can deliver for `bash path`.
ScriptFutures ==
    {Result(TRUE, n, o, <<>>) : n \in {0, 1, TimeoutSentinel}, o \in Stderrs} \cup {Raised("OSError")}

\* What the environment delivered to a probe.
Delivered(f) ==
    IF f.kind = "result" /\ f.code = 0 THEN "exists"
    ELSE IF f.kind = "result" /\ f.code = 1 THEN "absent"
    ELSE "failed"

\* A mutant of the test of the probe's output: any output of a completed
\* command counts.
FoundInAnyText(r) ==
    ~r.raised /\ r.outs[1].kind = "text"

\* "exists" in check_output
FoundIn(r) ==
    /\ ~r.raised
    /\ r.outs[1].kind = "text"
    /\ \E i \in 1..Len(r.outs[1].text) : r.outs[1].text[i] = "exists"

\* re.sub(r"\x1b\[[0-9;]*m|\r", "", output) on a returned output
NormalizeOut(o) == IF o.kind = "text" THEN Text(Normalize(o.text)) ELSE o

NoScriptFound == [kind |-> "no_test_script", text |-> <<>>, t |-> 0, exc |-> "none"]

\* return "No test script found in any expected location", "-1"
NoScriptReturn(m) ==
    IF m = "run_tests" THEN Returned(<<NoScriptFound>>, "-1")
    ELSE Returned(<<Text(<<>>), NoScriptFound>>, "-1")

\* A mutant of one round of the search: a probe that did not complete ends
\* the search with the probe's own result.
AfterProbeStopsOnFailure(ts, locs, f) ==
    LET r == Outcome("apptainer", "run", 1, f)
        seen == [ts EXCEPT !.probed = Append(@, locs[ts.i]), !.delivered = Append(@, Delivered(f))]
    IN IF FoundIn(r) THEN [seen EXCEPT !.pc = "executing"]
       ELSE IF r.code = "-1" THEN [seen EXCEPT !.pc = "returned", !.ret = r]
       ELSE IF ts.i < Len(locs) THEN [seen EXCEPT !.i = @ + 1]
       ELSE [seen EXCEPT !.pc = "returned", !.ret = NoScriptReturn(ts.method)]

\* One round of `for script_path in test_script_locations`, up to the test
\* of the probe's output; f is what the exec primitive delivers to the probe.
AfterProbe(ts, locs, f) ==
    LET r == Outcome("apptainer", "run", 1, f)
        seen == [ts EXCEPT !.probed = Append(@, locs[ts.i]), !.delivered = Append(@, Delivered(f))]
    IN IF FoundIn(r) THEN [seen EXCEPT !.pc = "executing"]
       ELSE IF ts.i < Len(locs) THEN [seen EXCEPT !.i = @ + 1]
       ELSE [seen EXCEPT !.pc = "returned", !.ret = NoScriptReturn(ts.method)]

\* The rest of the round once the script was found: it is executed and its
\* normalized result is returned.
AfterScript(ts, locs, t, f) ==
    LET m == IF ts.method = "run_tests" THEN "run" ELSE "demux_run"
        r == Outcome("apptainer", m, t, f)
    IN [ts EXCEPT !.pc = "returned",
                  !.executed = Append(@, locs[ts.i]),
                  !.ret = [r EXCEPT !.outs = [k \in 1..Len(r.outs) |-> NormalizeOut(r.outs[k])]]]

InitTests ==
    /\ RunIdle
    /\ MoreIdle
    /\ RewardIdle
    /\ LifeIdle
    /\ CreateIdle
    /\ PatchIdle
    /\ fs \in SUBSET Files
    /\ dirs \in [alt_path : AltPaths, repo_path : RepoPaths]
    /\ tests = NoTests

\* ApptainerRuntime.run_tests / demux_run_tests is entered.
CallTests(m) ==
    /\ tests.pc = "idle"
    /\ tests' = [tests EXCEPT !.pc = "probing", !.method = m, !.i = 1]
    /\ UNCHANGED <<fs, dirs, lifeVars, create, patchVars, runVars, rewardVars, moreVars>>

\* The existence probe of the next candidate.
Probe ==
    /\ tests.pc = "probing"
    /\ LET locs == TestScriptLocations(dirs)
       IN \E f \in ProbeFutures(Canonical(locs[tests.i]) \in fs) :
              tests' = AfterProbe(tests, locs, f)
    /\ UNCHANGED <<fs, dirs, lifeVars, create, patchVars, runVars, rewardVars, moreVars>>

\* The script that was found is executed.
RunScript ==
    /\ tests.pc = "executing"
    /\ \E f \in ScriptFutures, t \in Timeouts :
           tests' = AfterScript(tests, TestScriptLocations(dirs), t, f)
    /\ UNCHANGED <<fs, dirs, lifeVars, create, patchVars, runVars, rewardVars, moreVars>>

NextTests ==
    \/ \E m \in {"run_tests", "demux_run_tests"} : CallTests(m)
    \/ Probe
    \/ RunScript

SpecTests == InitTests /\ [][NextTests]_vars

(***************************************************************************)
(* Part 8.  apply_patch, reverse_patch and get_patch.  The working tree is *)
(* one file, a sequence of lines; a line is a sequence of characters, " "  *)
(* being a blank.  A patch is one hunk without context: the lines it       *)
(* removes and the lines it adds.                                          *)
(***************************************************************************)
MaxLines == 2        \* most lines of the file and of either side of a patch

Lines == {<<"a">>, <<"b">>, <<"a", " ">>}
Contents == SeqsUpTo(Lines, MaxLines)
Patches == [removed : Contents, added : Contents]

\* What --whitespace=fix makes of an added line: trailing blanks are dropped.
RECURSIVE FixLine(_)
FixLine(line) ==
    IF line # <<>> /\ line[Len(line)] = " " THEN FixLine(SubSeq(line, 1, Len(line) - 1))
    ELSE line

\* git apply --whitespace=fix <patch>: the hunk applies where the file is
\* the removed lines; the added lines are written with their whitespace
\* errors fixed.
GitApplyFix(t, p) ==
    IF t = p.removed
    THEN [tree |-> [i \in 1..Len(p.added) |-> FixLine(p.added[i])], code |-> 0]
    ELSE [tree |-> t, code |-> 1]

\* git apply -R <patch>: the hunk applies in reverse where the file is
\* exactly the added lines.
GitApplyReverse(t, p) ==
    IF t = p.added THEN [tree |-> p.removed, code |-> 0] ELSE [tree |-> t, code |-> 1]

\* The exit-code string run returns for a git command.
GitCode(n) == IF n = 0 THEN "0" ELSE ExitCodeError(n)

\* get_patch: git add -A && git diff --cached
EmptyDiff == [removed |-> <<>>, added |-> <<>>]
GetPatch(head, t) == IF t = head THEN EmptyDiff ELSE [removed |-> head, added |-> t]

InitPatch ==
    /\ RunIdle
    /\ MoreIdle
    /\ RewardIdle
    /\ LifeIdle
    /\ CreateIdle
    /\ TestsIdle
    /\ tree \in Contents
    /\ \E p \in Patches :
           patched = [patch |-> p, calls |-> <<>>, before |-> tree, codes |-> <<>>]

ApplyPatch ==
    /\ patched.calls = <<>>
    /\ LET r == GitApplyFix(tree, patched.patch)
       IN /\ tree' = r.tree
          /\ patched' = [patched EXCEPT !.calls = Append(@, "apply_patch"),
                                        !.before = tree,
                                        !.codes = Append(@, GitCode(r.code))]
    /\ UNCHANGED <<lifeVars, create, testVars, runVars, rewardVars, moreVars>>

ReversePatch ==
    /\ patched.calls = <<"apply_patch">>
    /\ LET r == GitApplyReverse(tree, patched.patch)
       IN /\ tree' = r.tree
          /\ patched' = [patched EXCEPT !.calls = Append(@, "reverse_patch"),
                                        !.codes = Append(@, GitCode(r.code))]
    /\ UNCHANGED <<lifeVars, create, testVars, runVars, rewardVars, moreVars>>

NextPatch ==
    \/ ApplyPatch
    \/ ReversePatch

SpecPatch == InitPatch /\ [][NextPatch]_vars

(***************************************************************************)
(* Part 9: create_file (base.py 281-289) with the copy-in of each backend. *)
(* A path is the sequence of its components, an absolute one starting with *)
(* the component "/".                                                      *)
(***************************************************************************)
RootDir == <<"/">>
TmpDir == <<"/", "tmp">>
TestbedDir == <<"/", "testbed">>

\* The paths and the contents a caller passes, and the values of uuid4.
FilePaths == {<<"a.py">>, <<"pkg", "a.py">>, <<"/", "a.py">>, <<"/", "testbed", "a.py">>}
FileTexts == {"", "x\n", "x\ny"}
Uuids == {"u1", "u2"}

\* Directories that may or may not exist on the host and in the sandbox.
HostDirChoices == {<<"/", "tmp", "pkg">>, <<"/", "testbed">>}
SandboxDirChoices == {<<"/", "pkg">>, <<"/", "testbed", "pkg">>, <<"/", "testbed", "testbed">>}

IsAbs(p) == Len(p) > 0 /\ p[1] = "/"
Dirname(p) == SubSeq(p, 1, Len(p) - 1)

\* f"{file_path}_{uuid_}"
Tagged(p, u) == [p EXCEPT ![Len(p)] = @ \o "_" \o u]

\* os.path.join(base, p): an absolute p discards base.
OsPathJoin(base, p) == IF IsAbs(p) THEN p ELSE base \o p

\* f"{base}/{p}" as the sandbox resolves it: a doubled slash is a single one.
Under(base, p) == base \o (IF IsAbs(p) THEN Tail(p) ELSE p)

\* A command run without workdir executes in self.repo_path.
Resolve(p) == OsPathJoin(TestbedDir, p)

NoContent == [found |-> FALSE, text |-> ""]
ReadFile(files, p) ==
    IF Resolve(p) \in DOMAIN files
    THEN [found |-> TRUE, text |-> files[Resolve(p)]]
    ELSE NoContent

WriteFile(files, p, text) ==
    [q \in DOMAIN files \cup {p} |-> IF q = p THEN text ELSE files[q]]

\* copy_to_container(src, dest) of each backend, src being readable: the
\* directories and files of the sandbox afterwards, and whether it raised.
CopyToContainer(b, sb, dest, text) ==
    CASE b = "docker" ->
             \* put_archive(dirname(dest), tar) answers 404 for a missing directory
             IF Dirname(dest) \in sb.dirs
             THEN [dirs |-> sb.dirs, files |-> WriteFile(sb.files, dest, text), raised |-> FALSE]
             ELSE [dirs |-> sb.dirs, files |-> sb.files, raised |-> TRUE]
      [] b = "kubernetes" ->
             \* tar xmf - -C dest_dir fails inside the pod; nothing reads its status
             IF Dirname(dest) \in sb.dirs
             THEN [dirs |-> sb.dirs, files |-> WriteFile(sb.files, dest, text), raised |-> FALSE]
             ELSE [dirs |-> sb.dirs, files |-> sb.files, raised |-> FALSE]
      [] OTHER ->
             \* mkdir -p parent_dir, then cat > dest
             [dirs |-> sb.dirs \cup {SubSeq(dest, 1, k) : k \in 1..(Len(dest) - 1)},
              files |-> WriteFile(sb.files, dest, text), raised |-> FALSE]

\* mv src dst inside the sandbox; its exit code is not looked at.
Mv(sb, src, dst) ==
    IF src \in DOMAIN sb.files /\ Dirname(dst) \in sb.dirs
    THEN [dirs |-> sb.dirs,
          files |-> [q \in (DOMAIN sb.files \ {src}) \cup {dst} |->
                         IF q = dst THEN sb.files[src] ELSE sb.files[q]]]
    ELSE [dirs |-> sb.dirs, files |-> sb.files]

\* create_file(file_path, content) with uuid4() = u.
AfterCreateFile(f, u) ==
    LET file_path_ == Tagged(f.path, u)
        hostPath == OsPathJoin(TmpDir, file_path_)
        dest == Under(TestbedDir, file_path_)
        sb == [dirs |-> f.dirs, files |-> f.files]
    IN IF Dirname(hostPath) \notin f.hostDirs
       THEN \* open(file_path__, "w") raises FileNotFoundError
            [f EXCEPT !.pc = "done", !.raised = TRUE, !.exc = "FileNotFoundError",
                      !.hostPath = hostPath]
       ELSE LET copied == CopyToContainer(f.backend, sb, dest, f.content)
            IN IF copied.raised
               THEN [f EXCEPT !.pc = "done", !.raised = TRUE, !.exc = "NotFound",
                              !.hostPath = hostPath, !.temp = dest]
               ELSE LET moved == Mv(copied, dest, Under(RootDir, f.path))
                    IN [f EXCEPT !.pc = "done", !.hostPath = hostPath, !.temp = dest,
                                 !.dirs = moved.dirs, !.files = moved.files,
                                 !.ret = [output |-> "", code |-> "0"]]

InitFile ==
    /\ RunIdle
    /\ RewardIdle
    /\ LifeIdle /\ CreateIdle /\ TestsIdle /\ PatchIdle /\ LateIdle
    /\ driver = NoDriver /\ copy = NoCopy /\ setup = NoSetup /\ flags = NoFlags /\ pod = NoPod
    /\ \E b \in Backends, p \in FilePaths, text \in FileTexts,
          hd \in SUBSET HostDirChoices, sd \in SUBSET SandboxDirChoices :
           file = [pc |-> "idle", backend |-> b, path |-> p, content |-> text,
                   hostDirs |-> {RootDir, TmpDir} \cup hd,
                   dirs |-> {RootDir, TestbedDir} \cup sd, files |-> <<>>,
                   hostPath |-> <<>>, temp |-> <<>>, raised |-> FALSE, exc |-> "none",
                   ret |-> [output |-> "", code |-> "none"]]

CreateFile(u) ==
    /\ file.pc = "idle"
    /\ file' = AfterCreateFile(file, u)
    /\ UNCHANGED <<runVars, rewardVars, partVars, lateVars, driver, copy, setup, flags, pod>>

NextFile == \E u \in Uuids : CreateFile(u)

SpecFile == InitFile /\ [][NextFile]_vars

(***************************************************************************)
(* Part 10: the golden-patch driver, time_golden_patch_execution           *)
(* (src/time_golden_patch.py 121-212), one action per numbered step.  A    *)
(* step that raises is caught by the single except clause of the function, *)
(* which sets success to False; the function then returns results.         *)
(***************************************************************************)
EnvIndexes == {0, 1}
ApplyCodes == {"0", "1", "-1"}     \* the exit codes apply_patch returns
RewardValues == {0, 1}             \* the rewards 0.0 and 1.0
StepOutcomes == {"ok", "raises"}

\* results = TimingResults(env_idx=env_idx, docker_image="")
TimingResults(idx, b) ==
    [pc |-> "start", env_idx |-> idx, backend |-> b, applyCode |-> "none", graded |-> 0,
     reward |-> -1, success |-> FALSE, envOpen |-> FALSE, closes |-> 0, caught |-> "none"]

\* except Exception as e: ... results.success = False; return results
Caught(d, step) == [d EXCEPT !.pc = "returned", !.success = FALSE, !.caught = step]

InitDriver ==
    /\ RunIdle
    /\ RewardIdle
    /\ LifeIdle /\ CreateIdle /\ TestsIdle /\ PatchIdle /\ LateIdle
    /\ file = NoFile /\ copy = NoCopy /\ setup = NoSetup /\ flags = NoFlags /\ pod = NoPod
    /\ \E idx \in EnvIndexes, b \in Backends : driver = TimingResults(idx, b)

DriverFrame == UNCHANGED <<runVars, rewardVars, partVars, lateVars, file, copy, setup, flags, pod>>

\* Step 1: ds = load_dataset_entry(dataset, split, env_idx)
LoadDatasetEntry(o) ==
    /\ driver.pc = "start"
    /\ driver' = IF o = "ok" THEN [driver EXCEPT !.pc = "loaded"] ELSE Caught(driver, "load")
    /\ DriverFrame

\* Step 2: golden_patch = get_golden_patch(ds)
GetGoldenPatch(o) ==
    /\ driver.pc = "loaded"
    /\ driver' = IF o = "ok" THEN [driver EXCEPT !.pc = "patch"] ELSE Caught(driver, "patch")
    /\ DriverFrame

\* Step 3: env = RepoEnv(...); env.reset().  The constructor may raise
\* before a sandbox exists, reset may raise after one was started.
InitializeEnvironment(o) ==
    /\ driver.pc = "patch"
    /\ driver' = CASE o = "ok" -> [driver EXCEPT !.pc = "env", !.envOpen = TRUE]
                   [] o = "reset_raises" -> Caught([driver EXCEPT !.envOpen = TRUE], "init")
                   [] OTHER -> Caught(driver, "init")
    /\ DriverFrame

\* Step 4: apply_output, apply_error_code = env.runtime.apply_patch(golden_patch)
ApplyGoldenPatch(o, code) ==
    /\ driver.pc = "env"
    /\ driver' = IF o = "ok"
                 THEN [driver EXCEPT !.pc = "applied", !.applyCode = code,
                                     !.success = IF code # "0" THEN FALSE ELSE @]
                 ELSE Caught(driver, "apply")
    /\ DriverFrame

\* Step 5: reward, test_output = env.runtime._calculate_reward(...)
CalculateReward(o, r) ==
    /\ driver.pc = "applied"
    /\ driver' = IF o = "ok"
                 THEN [driver EXCEPT !.pc = "graded", !.graded = @ + 1, !.reward = r,
                                     !.success = (r = 1)]
                 ELSE Caught([driver EXCEPT !.graded = @ + 1], "reward")
    /\ DriverFrame

\* Step 6: env.close(), then return results
CloseEnvironment(o) ==
    /\ driver.pc = "graded"
    /\ driver' = IF o = "ok"
                 THEN [driver EXCEPT !.pc = "returned", !.closes = @ + 1, !.envOpen = FALSE]
                 ELSE Caught([driver EXCEPT !.closes = @ + 1], "close")
    /\ DriverFrame

NextDriver ==
    \/ \E o \in StepOutcomes : LoadDatasetEntry(o)
    \/ \E o \in StepOutcomes : GetGoldenPatch(o)
    \/ \E o \in StepOutcomes \cup {"reset_raises"} : InitializeEnvironment(o)
    \/ \E o \in StepOutcomes, code \in ApplyCodes : ApplyGoldenPatch(o, code)
    \/ \E o \in StepOutcomes, r \in RewardValues : CalculateReward(o, r)
    \/ \E o \in StepOutcomes : CloseEnvironment(o)

SpecDriver == InitDriver /\ [][NextDriver]_vars

(***************************************************************************)
(* Part 11: copy-in.  copy_to_container of the three backends              *)
(* (docker.py 475-522, apptainer.py 484-509) as called by apply_patch,     *)
(* reverse_patch and create_file (base.py 281-308); the retry loop of the  *)
(* cluster backend is modelled one attempt at a time.                      *)
(***************************************************************************)
CopyMaxRetries == 5      \* max_retries = 5
CopyRetryDelay == 5      \* retry_delay = 5
CopyMaxDelay == 60       \* retry_delay = min(retry_delay, 60)

CopyCallers == {"apply_patch", "reverse_patch", "create_file"}

\* How one transfer ends: it completes, the exec stream cannot be opened
\* (nothing was read from tar_stream), or the write fails (tar_stream was read).
TransferOutcomes == {"ok", "connect_fails", "write_fails"}

\* What the caller of copy_to_container returns after a completed copy-in.
CallerReturn(caller) ==
    IF caller = "create_file"
    THEN [output |-> "", code |-> "0"]                \* return "", "0"
    ELSE [output |-> "git", code |-> "exit"]          \* return output, error_code of run

\* The caller has no try around copy_to_container: an exception of the
\* copy-in leaves apply_patch / reverse_patch / create_file as it is.
CopyRaised(c, e) == [c EXCEPT !.pc = "done", !.raised = TRUE, !.exc = e]
CopyReturned(c) == [c EXCEPT !.pc = "done", !.ret = CallerReturn(c.caller)]

\* tar_stream.read() returns the bytes from the read position to the end and
\* leaves the position at the end; a connection that was never opened has
\* read nothing.
ArchiveLen == 3
AfterRead(c, o) ==
    [c EXCEPT !.sent = Append(@, ArchiveLen - c.pos),
              !.pos = IF o = "connect_fails" THEN c.pos ELSE ArchiveLen]

\* DockerRuntime.copy_to_container, docker branch: one put_archive, no try.
AfterPutArchive(c, o) ==
    LET d == [AfterRead(c, o) EXCEPT !.attempt = 1]
    IN IF o = "ok" THEN CopyReturned(d) ELSE CopyRaised(d, "APIError")

\* ApptainerRuntime.copy_to_container: both except clauses log and re-raise.
AfterApptainerCopy(c, o) ==
    LET d == [AfterRead(c, o) EXCEPT !.attempt = 1]
    IN CASE o = "ok" -> CopyReturned(d)
         [] o = "write_fails" -> CopyRaised(d, "CalledProcessError")
         [] OTHER -> CopyRaised(d, "OSError")

\* One pass of the for loop of _copy_to_container_kubernetes.
AfterCopyAttemptNoSeek(c, o) ==
    LET d == AfterRead(c, o)
    IN IF o = "ok"
       THEN CopyReturned(d)
       ELSE IF c.attempt < CopyMaxRetries
            THEN [d EXCEPT !.attempt = @ + 1,
                           !.slept = Append(@, c.delay),
                           !.delay = Min(c.delay * 2, CopyMaxDelay),
                           !.logged = Append(@, o)]
            ELSE CopyRaised([d EXCEPT !.logged = Append(@, o)], o)

AfterCopyAttempt(c, o) ==
    LET d == AfterRead(c, o)
    IN IF o = "ok"
       THEN CopyReturned(d)
       ELSE IF c.attempt < CopyMaxRetries
            THEN [d EXCEPT !.attempt = @ + 1,
                           !.slept = Append(@, c.delay),
                           !.delay = Min(c.delay * 2, CopyMaxDelay),
                           !.logged = Append(@, o),
                           !.pos = 0]                   \* tar_stream.seek(0)
            ELSE CopyRaised([d EXCEPT !.logged = Append(@, o)], o)   \* raise

InitCopy ==
    /\ RunIdle
    /\ RewardIdle
    /\ LifeIdle /\ CreateIdle /\ TestsIdle /\ PatchIdle /\ LateIdle
    /\ file = NoFile /\ driver = NoDriver /\ setup = NoSetup /\ flags = NoFlags /\ pod = NoPod
    /\ \E caller \in CopyCallers, b \in Backends :
           copy = [pc |-> "copying", caller |-> caller, backend |-> b, attempt |-> 1,
                   delay |-> CopyRetryDelay, pos |-> 0, sent |-> <<>>, slept |-> <<>>,
                   logged |-> <<>>, raised |-> FALSE, exc |-> "none",
                   ret |-> [output |-> "", code |-> "none"]]

CopyFrame == UNCHANGED <<runVars, rewardVars, partVars, lateVars, file, driver, setup, flags, pod>>

PutArchive(o) ==
    /\ copy.pc = "copying" /\ copy.backend = "docker"
    /\ copy' = AfterPutArchive(copy, o)
    /\ CopyFrame

ApptainerCopy(o) ==
    /\ copy.pc = "copying" /\ copy.backend = "apptainer"
    /\ copy' = AfterApptainerCopy(copy, o)
    /\ CopyFrame

CopyAttempt(o) ==
    /\ copy.pc = "copying" /\ copy.backend = "kubernetes"
    /\ copy' = AfterCopyAttempt(copy, o)
    /\ CopyFrame

NextCopy ==
    \E o \in TransferOutcomes :
        \/ PutArchive(o)
        \/ ApptainerCopy(o)
        \/ CopyAttempt(o)

SpecCopy == InitCopy /\ [][NextCopy]_vars


(***************************************************************************)
(* The two retry loops of the cluster backend side by side: the creation   *)
(* loop of Part 6 and the copy-in loop above, each with its own delay      *)
(* variable (backoff, retry_delay).                                        *)
(***************************************************************************)
InitWaits ==
    /\ RunIdle /\ RewardIdle
    /\ LifeIdle /\ TestsIdle /\ PatchIdle /\ LateIdle
    /\ file = NoFile /\ driver = NoDriver /\ setup = NoSetup /\ flags = NoFlags /\ pod = NoPod
    /\ create = [pc |-> "loop", attempt |-> 1, backoff |-> InitialBackoff,
                 calls |-> <<>>, slept |-> <<>>]
    /\ \E caller \in CopyCallers :
           copy = [pc |-> "copying", caller |-> caller, backend |-> "kubernetes",
                   attempt |-> 1, delay |-> CopyRetryDelay, pos |-> 0, sent |-> <<>>,
                   slept |-> <<>>, logged |-> <<>>, raised |-> FALSE, exc |-> "none",
                   ret |-> [output |-> "", code |-> "none"]]

NextWaits ==
    \/ \E status \in ApiStatuses : CreateCall(status)
    \/ \E o \in TransferOutcomes : CopyAttempt(o)

SpecWaits == InitWaits /\ [][NextWaits]_vars

(***************************************************************************)
(* Part 12: setup_env, the bootstrap of a session after its sandbox was    *)
(* started (base.py 181-248 for the docker and cluster backends,           *)
(* apptainer.py 56-207 for the HPC adapter), one action per bootstrap      *)
(* step.  A program is the sequence of the steps of one setup method; a    *)
(* step names the step that follows its normal return (next) and the step  *)
(* at which execution continues when it raises (onRaise): the statement    *)
(* after the innermost enclosing try whose except clause swallows the      *)
(* exception, or 0 for the outermost try of the method, whose except       *)
(* clause logs the error and ends the method.                              *)
(***************************************************************************)
SetupModes == {"r2e", "swesmith", "swebench"}

Step(cmd, kind, next, onRaise) == [cmd |-> cmd, kind |-> kind, next |-> next, onRaise |-> onRaise]

\* The package-manager invocations of the HPC adapter, in source order.
InstallCmds ==
    <<"uv pip install chardet", "python -m pip install chardet",
      "python3 -m pip install chardet", "pip install chardet", "pip3 install chardet">>

\* The nested try statements of the install: invocation k at step first+k-1;
\* its normal return leaves the whole nest, its exception enters the except
\* clause that holds invocation k+1 (the last one: the warning of the nest).
InstallChain(first) ==
    [k \in 1..Len(InstallCmds) |->
        Step(InstallCmds[k], "run", first + Len(InstallCmds),
             IF k < Len(InstallCmds) THEN first + k ELSE first + Len(InstallCmds))]

\* Steps i, i+1, ... of a straight block inside the outermost try only.
Block(first, cmds, kind) ==
    [k \in 1..Len(cmds) |-> Step(cmds[k], kind, first + k, 0)]

\* base.py 231-246
BaseDefaultProgram ==
    Block(1, <<"ln -s .venv", "ln -s python", "ln -s python3", "find -exec ln -sf",
               "uv pip install chardet", "find . pyc", "find . __pycache__",
               "find /r2e_tests pyc", "find /r2e_tests __pycache__",
               "mv skip_files", "mv /r2e_tests", "ln -s r2e_tests">>, "run")

\* base.py 217-221
BaseSwebenchProgram ==
    <<Step("chmod +x /run_tests.sh", "run", 2, 0),
      Step("alt_path = /", "assign", 3, 0)>>
    \o Block(3, <<"ln -s testbed /root/.venv", "python -m pip install chardet">>, "run")

\* base.py 182-212
BaseSwesmithProgram ==
    <<Step("ds[base_commit]", "lookup", 2, 0)>>
    \o Block(2, <<"git fetch", "git checkout">>, "run")
    \o <<Step("get_test_command", "collab", 5, 0),
         Step("write temp script", "host", 6, 0),
         Step("copy /run_tests.sh", "copy", 7, 0),
         Step("os.unlink", "host", 8, 0)>>
    \o Block(8, <<"chmod +x /run_tests.sh", "ln -s testbed /root/.venv",
                  "echo PATH >> ~/.bashrc", "python -m pip install chardet">>, "run")

\* apptainer.py 63-106
ApptainerDefaultProgram ==
    InstallChain(1)
    \o <<Step("find . pyc", "run", 7, 8), Step("find . __pycache__", "run", 8, 8),
         Step("find /r2e_tests pyc", "run", 9, 10),
         Step("find /r2e_tests __pycache__", "run", 10, 10)>>

\* apptainer.py 113-141
ApptainerSwebenchProgram ==
    <<Step("chmod +x /run_tests.sh", "run", 2, 0),
      Step("alt_path = /", "assign", 3, 0),
      Step("ln -s testbed /root/.venv", "run", 4, 4)>>
    \o InstallChain(4)

\* apptainer.py 147-205
ApptainerSwesmithProgram ==
    <<Step("ds[base_commit]", "lookup", 2, 0)>>
    \o Block(2, <<"git fetch", "git checkout">>, "run")
    \o <<Step("get_test_command", "collab", 5, 0),
         Step("write temp script", "host", 6, 0),
         Step("copy /tmp/run_tests.sh", "copy", 7, 0),
         Step("os.unlink", "host", 8, 0),
         Step("chmod +x /tmp/run_tests.sh", "run", 9, 0),
         Step("cp /tmp/run_tests.sh /run_tests.sh", "run", 11, 10),
         Step("ln -sf /tmp/run_tests.sh /run_tests.sh", "run", 11, 0),
         Step("ln -s testbed /root/.venv", "run", 12, 12),
         Step("echo PATH >> ~/.bashrc", "run", 13, 13)>>
    \o InstallChain(13)

\* setup_env dispatches on the mode; DockerRuntime inherits the base methods.
SetupProgram(b, m) ==
    IF b = "apptainer"
    THEN CASE m = "swebench" -> ApptainerSwebenchProgram
           [] m = "swesmith" -> ApptainerSwesmithProgram
           [] OTHER -> ApptainerDefaultProgram
    ELSE CASE m = "swebench" -> BaseSwebenchProgram
           [] m = "swesmith" -> BaseSwesmithProgram
           [] OTHER -> BaseDefaultProgram

\* How a step can end.  A command is issued through run, whose last except
\* clause catches every Exception on each backend: it returns the exit,
\* the timeout or the error and raises only where that clause is missing.
RunOutcomes(b) ==
    {"ok", "nonzero", "timeout", "error"}
    \cup (IF \E i \in 1..Len(ExceptClauses(b, "run")) : ExceptClauses(b, "run")[i].class = "Exception"
          THEN {} ELSE {"raises"})

StepEndings(b, step) ==
    CASE step.kind = "run" -> RunOutcomes(b)
      [] step.kind = "assign" -> {"ok"}
      [] OTHER -> {"ok", "raises"}     \* copy_to_container, get_test_command, ds[...], tempfile

IsInstall(cmd) == \E k \in 1..Len(InstallCmds) : InstallCmds[k] = cmd

\* The method ends: the constructor goes on to its log lines and returns.
SetupEnds(s) == [s EXCEPT !.pc = "done", !.constructed = TRUE]

\* A mutant of one step: the outermost try of the setup methods is lost.
AfterSetupStepNoOuterTry(s, o) ==
    LET prog == SetupProgram(s.backend, s.mode)
        step == prog[s.i]
        t == [s EXCEPT !.issued = Append(@, step.cmd),
                       !.install = IF IsInstall(step.cmd) THEN Append(@, <<step.cmd, o>>) ELSE @]
        goto == IF o = "raises" THEN step.onRaise ELSE step.next
    IN IF o = "raises" /\ step.onRaise = 0
       THEN [t EXCEPT !.pc = "done", !.raised = TRUE]
       ELSE IF goto > Len(prog) THEN SetupEnds(t) ELSE [t EXCEPT !.i = goto]

\* One step of the setup method of backend s.backend in mode s.mode.
AfterSetupStep(s, o) ==
    LET prog == SetupProgram(s.backend, s.mode)
        step == prog[s.i]
        t == [s EXCEPT !.issued = Append(@, step.cmd),
                       !.install = IF IsInstall(step.cmd) THEN Append(@, <<step.cmd, o>>) ELSE @,
                       !.alt_path = IF step.kind = "assign" THEN "/" ELSE @]
        goto == IF o = "raises" THEN step.onRaise ELSE step.next
    IN IF o = "raises" /\ step.onRaise = 0
       THEN \* except Exception as e: self.logger.error(...)
            SetupEnds([t EXCEPT !.logged = Append(@, "error")])
       ELSE LET u == IF o = "raises" /\ (~IsInstall(step.cmd) \/ goto = step.next)
                     THEN [t EXCEPT !.logged = Append(@, "warning")] ELSE t
            IN IF goto > Len(prog) THEN SetupEnds(u) ELSE [u EXCEPT !.i = goto]

InitSetup ==
    /\ RunIdle
    /\ RewardIdle
    /\ LifeIdle /\ CreateIdle /\ TestsIdle /\ PatchIdle /\ LateIdle
    /\ file = NoFile /\ driver = NoDriver /\ copy = NoCopy /\ flags = NoFlags /\ pod = NoPod
    /\ \E b \in Backends, m \in SetupModes :
           setup = [pc |-> "setup", backend |-> b, mode |-> m, i |-> 1, alt_path |-> "/root",
                    issued |-> <<>>, install |-> <<>>, logged |-> <<>>,
                    raised |-> FALSE, constructed |-> FALSE]

SetupStep(o) ==
    /\ setup.pc = "setup"
    /\ o \in StepEndings(setup.backend, SetupProgram(setup.backend, setup.mode)[setup.i])
    /\ setup' = AfterSetupStep(setup, o)
    /\ UNCHANGED <<runVars, rewardVars, partVars, lateVars, file, driver, copy, flags, pod>>

NextSetup == \E o \in {"ok", "nonzero", "timeout", "error", "raises"} : SetupStep(o)

SpecSetup == InitSetup /\ [][NextSetup]_vars

(***************************************************************************)
(* Part 13: the mode of a session.  The constructor derives two flags from *)
(* the image reference (base.py 77-79); the constructor, setup_env and     *)
(* _calculate_reward each branch on them (base.py 81-110, 225-229,         *)
(* 419-425; apptainer.py 58-61).  An image reference is the sequence of    *)
(* its words; `word in image` is true when the word occurs in it.          *)
(***************************************************************************)
MaxImageWords == 2      \* most words of an image reference

ImageWords == {"swebench", "swesmith", "namanjain12"}
ImageRefs == UNION {[1..n -> ImageWords] : n \in 1..MaxImageWords}

\* "word" in self.docker_image
Contains(image, word) == \E i \in 1..Len(image) : image[i] = word

\* The branches the constructor takes: the image rewrite of the
\* smith-generated mode (81-83), the commit and the test spec of the
\* verified-benchmark mode (97, 109-110), the metadata of the default mode
\* (91, 98).
ConstructedAs(swebench_verified, swesmith) ==
    (IF swesmith THEN {"swesmith"} ELSE {})
    \cup (IF swebench_verified THEN {"swebench"} ELSE {})
    \cup (IF ~swebench_verified /\ ~swesmith THEN {"r2e"} ELSE {})

\* if self.swebench_verified: ... elif self.swesmith: ... else: ...
Dispatch(f) ==
    IF f.swebench_verified THEN "swebench"
    ELSE IF f.swesmith THEN "swesmith"
    ELSE "r2e"

InitFlags ==
    /\ RunIdle
    /\ RewardIdle
    /\ LifeIdle /\ CreateIdle /\ TestsIdle /\ PatchIdle /\ LateIdle
    /\ file = NoFile /\ driver = NoDriver /\ copy = NoCopy /\ setup = NoSetup /\ pod = NoPod
    /\ \E image \in ImageRefs, b \in Backends :
           flags = [pc |-> "new", image |-> image, backend |-> b,
                    swebench_verified |-> FALSE, swesmith |-> FALSE,
                    built |-> {}, setupBy |-> "none", rewardBy |-> "none"]

FlagsFrame == UNCHANGED <<runVars, rewardVars, partVars, lateVars, file, driver, copy, setup, pod>>

\* ExecutionEnvironment.__init__
ConstructFlags ==
    /\ flags.pc = "new"
    /\ LET v == Contains(flags.image, "swebench")
           s == Contains(flags.image, "swesmith")
       IN flags' = [flags EXCEPT !.pc = "constructed", !.swebench_verified = v, !.swesmith = s,
                                 !.built = ConstructedAs(v, s)]
    /\ FlagsFrame

\* setup_env, called by the constructor of the runtime
SetupEnvByMode ==
    /\ flags.pc = "constructed"
    /\ flags' = [flags EXCEPT !.pc = "ready", !.setupBy = Dispatch(flags)]
    /\ FlagsFrame

\* _calculate_reward
CalculateRewardByMode ==
    /\ flags.pc \in {"ready", "graded"}
    /\ flags' = [flags EXCEPT !.pc = "graded", !.rewardBy = Dispatch(flags)]
    /\ FlagsFrame

NextFlags ==
    \/ ConstructFlags
    \/ SetupEnvByMode
    \/ CalculateRewardByMode

SpecFlags == InitFlags /\ [][NextFlags]_vars

(***************************************************************************)
(* Part 14: the start of a pod on the cluster backend, step by step:       *)
(* _start_kubernetes_pod (docker.py 88-211) with the failure cleanup of    *)
(* start_container (docker.py 240-243, 303-313).  The creation loop is one *)
(* step here (Part 6 has its attempts).  The pod's phase belongs to the    *)
(* control plane and changes by itself; Succeeded and Failed are final.    *)
(***************************************************************************)
WaitLimit == 1200       \* timeout_seconds=1200; time.time() - start_time > 1200

Phases == {"Pending", "Running", "Succeeded", "Failed", "Unknown"}
FinalPhases == {"Succeeded", "Failed"}

\* The phases a pod in phase p can move to.
NextPhases(p) ==
    CASE p = "Pending" -> {"Running", "Failed", "Unknown"}
      [] p = "Running" -> {"Succeeded", "Failed", "Unknown"}
      [] p = "Unknown" -> {"Pending", "Running", "Failed"}
      [] OTHER -> {}

\* The readings of time.time() - start_time taken when an event arrives.
Elapsed == {WaitLimit, WaitLimit + 1}

PodEnded(p) == p.pc \in {"started", "failed"}

\* start_container: except Exception: print; self.stop_container(); return.
\* stop_container deletes the pod only if self.container is set.
StartFails(p, e) ==
    [p EXCEPT !.pc = "failed", !.raised = TRUE, !.exc = e,
              !.deletes = IF p.container # "none" THEN @ + 1 ELSE @]

\* The body of `for event in stream` for an event showing phase ph, read
\* when `elapsed` seconds have passed.
AfterWatchEvent(p, ph, elapsed) ==
    LET q == [p EXCEPT !.lastEvent = ph, !.late = (elapsed > WaitLimit)]
    IN IF elapsed > WaitLimit
       THEN [q EXCEPT !.pc = "fallback", !.via = "timeout"]
       ELSE IF ph = "Running"
       THEN [q EXCEPT !.pc = "started", !.via = "running_event", !.container = "pod",
                      !.observedRunning = TRUE]
       ELSE IF ph \in {"Failed", "Succeeded", "Unknown"}
       THEN [q EXCEPT !.pc = "fallback", !.via = "terminal_event"]
       ELSE q

\* A mutant of the fallback: the phase shown by the status read is not tested.
AfterFallbackReadAnyPhase(p, o) ==
    IF o = "ok"
    THEN [p EXCEPT !.reads = @ + 1, !.readPhase = p.phase, !.pc = "started",
                   !.container = "pod_status"]
    ELSE StartFails([p EXCEPT !.reads = @ + 1, !.readPhase = "error"], "RuntimeError")

\* except Exception as e: one read_namespaced_pod; Running or RuntimeError.
AfterFallbackRead(p, o) ==
    LET q == [p EXCEPT !.reads = @ + 1, !.readPhase = IF o = "ok" THEN p.phase ELSE "error"]
    IN IF o = "ok" /\ p.phase = "Running"
       THEN [q EXCEPT !.pc = "started", !.container = "pod_status", !.observedRunning = TRUE]
       ELSE StartFails(q, "RuntimeError")

InitPod ==
    /\ RunIdle
    /\ RewardIdle
    /\ LifeIdle /\ CreateIdle /\ TestsIdle /\ PatchIdle /\ LateIdle
    /\ file = NoFile /\ driver = NoDriver /\ copy = NoCopy /\ setup = NoSetup /\ flags = NoFlags
    /\ \E prior \in {"none", "old"}, ph \in Phases \cup {"absent"} :
           pod = [pc |-> "start", prior |-> prior, container |-> prior, phase |-> ph,
                  created |-> FALSE, lastEvent |-> "none", late |-> FALSE, via |-> "none",
                  reads |-> 0, readPhase |-> "none", observedRunning |-> FALSE,
                  raised |-> FALSE, exc |-> "none", deletes |-> 0]

PodFrame == UNCHANGED <<runVars, rewardVars, partVars, lateVars, file, driver, copy, setup, flags>>

\* read_namespaced_pod(name): an existing pod is taken over as it is; 404
\* leads to the creation; any other error is raised.
ReadExistingPod(o) ==
    /\ pod.pc = "start"
    /\ pod' = IF o # "ok" THEN StartFails(pod, "ApiException")
              ELSE IF pod.phase # "absent"
              THEN [pod EXCEPT !.pc = "started", !.via = "existing", !.container = "existing"]
              ELSE [pod EXCEPT !.pc = "create"]
    /\ PodFrame

\* The creation loop as a whole: the pod is created, or the loop raises.
CreatePod(o) ==
    /\ pod.pc = "create"
    /\ pod' = IF o = "ok" THEN [pod EXCEPT !.pc = "watch", !.created = TRUE, !.phase = "Pending"]
              ELSE StartFails(pod, "ApiException")
    /\ PodFrame

\* The control plane moves the created pod to another phase.
PhaseChanges(ph) ==
    /\ pod.created
    /\ pod.pc \in {"watch", "fallback"}
    /\ ph \in NextPhases(pod.phase)
    /\ pod' = [pod EXCEPT !.phase = ph]
    /\ PodFrame

\* The watch stream delivers an event showing the pod's phase.
WatchEvent(elapsed) ==
    /\ pod.pc = "watch"
    /\ pod' = AfterWatchEvent(pod, pod.phase, elapsed)
    /\ PodFrame

\* The watch stream ends by its own timeout_seconds: the for loop is left
\* without break and without exception, and self.container = pod follows.
StreamEnds ==
    /\ pod.pc = "watch"
    /\ pod' = [pod EXCEPT !.pc = "started", !.via = "stream_end", !.container = "pod"]
    /\ PodFrame

\* The watch stream raises.
StreamError ==
    /\ pod.pc = "watch"
    /\ pod' = [pod EXCEPT !.pc = "fallback", !.via = "stream_error"]
    /\ PodFrame

FallbackRead(o) ==
    /\ pod.pc = "fallback"
    /\ pod' = AfterFallbackRead(pod, o)
    /\ PodFrame

NextPod ==
    \/ \E o \in {"ok", "error"} : ReadExistingPod(o)
    \/ \E o \in {"ok", "error"} : CreatePod(o)
    \/ \E ph \in Phases : PhaseChanges(ph)
    \/ \E elapsed \in Elapsed : WatchEvent(elapsed)
    \/ StreamEnds
    \/ StreamError
    \/ \E o \in {"ok", "error"} : FallbackRead(o)

SpecPod == InitPod /\ [][NextPod]_vars


(***************************************************************************)
(* Part 15.  DockerRuntime.close on the cluster backend: stop_container    *)
(* and _stop_kubernetes_pod (docker.py 245-313, 524-528).  The record      *)
(* `stop` holds the position in the method, whether self.container is set, *)
(* whether the pod still exists in the cluster, the requests issued so     *)
(* far, the events the watch delivered, and what was logged and printed.   *)
(***************************************************************************)
MaxEvents == 3

OtherEventTypes == {"ADDED", "MODIFIED"}
ApiOutcomes == {"ok", "api_error", "error"}

\* what an API call on the pod answers: 404 when the pod is gone, otherwise
\* success or a fault of the control plane
Answers(exists) == IF exists THEN ApiOutcomes ELSE {"404", "api_error", "error"}

\* stop_container's `except Exception`: the error is printed, nothing is raised
StopCaught(s, e) == [s EXCEPT !.pc = "returned", !.printed = e]

\* the outer `except ApiException` of _stop_kubernetes_pod: 404 is logged as
\* already deleted, every other status is logged and raised again, and
\* stop_container catches it
OuterExcept(s, o) ==
    IF o = "404" THEN [s EXCEPT !.pc = "returned", !.logged = Append(@, "not_found")]
    ELSE IF o = "api_error"
         THEN StopCaught([s EXCEPT !.logged = Append(@, "error_deleting")], "ApiException")
         ELSE StopCaught(s, "Exception")

\* the inner `except ApiException` around the re-read and the forced delete
InnerExcept(s, o) ==
    IF o = "404" THEN [s EXCEPT !.pc = "returned", !.logged = Append(@, "confirmed_deleted")]
    ELSE IF o = "api_error"
         THEN [s EXCEPT !.pc = "returned", !.logged = Append(@, "error_checking")]
         ELSE StopCaught(s, "Exception")

AfterDeletePod(s, o) ==
    LET t == [s EXCEPT !.calls = Append(@, "delete_grace_0")]
    IN IF o = "ok" THEN [t EXCEPT !.pc = "watch"] ELSE OuterExcept(t, o)

AfterDeletedEvent(s) ==
    [s EXCEPT !.pc = "returned", !.events = Append(@, "DELETED"),
              !.confirmed = TRUE, !.exists = FALSE,
              !.logged = Append(@, "deleted")]

AfterReRead(s, o) ==
    LET t == [s EXCEPT !.calls = Append(@, "read")]
    IN IF o = "ok"
       THEN [t EXCEPT !.pc = "force", !.logged = Append(@, "still_exists")]
       ELSE InnerExcept(t, o)

AfterForceDeleteTwice(s, o) ==
    LET t == [s EXCEPT !.calls = @ \o <<"delete_force", "delete_force">>]
    IN IF o = "ok" THEN [t EXCEPT !.pc = "returned"] ELSE InnerExcept(t, o)

AfterForceDelete(s, o) ==
    LET t == [s EXCEPT !.calls = Append(@, "delete_force")]
    IN IF o = "ok" THEN [t EXCEPT !.pc = "returned"] ELSE InnerExcept(t, o)

InitStop ==
    /\ RunIdle /\ RewardIdle
    /\ LifeIdle /\ CreateIdle /\ TestsIdle /\ PatchIdle
    /\ file = NoFile /\ driver = NoDriver /\ copy = NoCopy
    /\ setup = NoSetup /\ flags = NoFlags /\ pod = NoPod
    /\ lookup = NoCall /\ testReset = NoCall /\ git = NoCall
    /\ \E h \in BOOLEAN, x \in BOOLEAN :
         stop = [pc |-> "close", handle |-> h, exists |-> x, missed |-> FALSE,
                 calls |-> <<>>, events |-> <<>>, confirmed |-> FALSE,
                 logged |-> <<>>, printed |-> "none", raised |-> FALSE]

StopFrame == UNCHANGED <<runVars, rewardVars, partVars, file, driver, copy, setup,
                         flags, pod, lookup, testReset, git>>

\* close -> stop_container: nothing is done without a container handle
StopPod ==
    /\ stop.pc = "close"
    /\ stop' = [stop EXCEPT !.pc = IF stop.handle THEN "delete" ELSE "returned"]
    /\ StopFrame

DeletePod(o) ==
    /\ stop.pc = "delete"
    /\ o \in Answers(stop.exists)
    /\ stop' = AfterDeletePod(stop, o)
    /\ StopFrame

\* the pod finishes terminating between the delete and the start of the watch,
\* so the watch will not show its DELETED event
PodGoneBeforeWatch ==
    /\ stop.pc = "watch" /\ stop.exists /\ stop.events = <<>>
    /\ stop' = [stop EXCEPT !.exists = FALSE, !.missed = TRUE]
    /\ StopFrame

\* an event of another type: the loop goes on to the next event
OtherEvent(t) ==
    /\ stop.pc = "watch" /\ stop.exists
    /\ Len(stop.events) < MaxEvents
    /\ stop' = [stop EXCEPT !.events = Append(@, t)]
    /\ StopFrame

DeletedEvent ==
    /\ stop.pc = "watch" /\ stop.exists
    /\ stop' = AfterDeletedEvent(stop)
    /\ StopFrame

\* the stream ends by its timeout_seconds=60 without a DELETED event
WatchEnds ==
    /\ stop.pc = "watch"
    /\ stop' = [stop EXCEPT !.pc = "reread"]
    /\ StopFrame

WatchRaises(o) ==
    /\ stop.pc = "watch"
    /\ o \in {"api_error", "error"}
    /\ stop' = OuterExcept(stop, o)
    /\ StopFrame

ReRead(o) ==
    /\ stop.pc = "reread"
    /\ o \in Answers(stop.exists)
    /\ stop' = AfterReRead(stop, o)
    /\ StopFrame

ForceDelete(o) ==
    /\ stop.pc = "force"
    /\ o \in Answers(stop.exists) \cup {"404"}
    /\ stop' = AfterForceDelete(stop, o)
    /\ StopFrame

NextStop ==
    \/ StopPod
    \/ \E o \in ApiOutcomes \cup {"404"} : DeletePod(o)
    \/ PodGoneBeforeWatch
    \/ \E t \in OtherEventTypes : OtherEvent(t)
    \/ DeletedEvent
    \/ WatchEnds
    \/ \E o \in ApiOutcomes : WatchRaises(o)
    \/ \E o \in ApiOutcomes \cup {"404"} : ReRead(o)
    \/ \E o \in ApiOutcomes \cup {"404"} : ForceDelete(o)

SpecStop == InitStop /\ [][NextStop]_vars

\* every step of close is a bounded call, so an enabled step is taken
FairSpecStop == SpecStop /\ WF_vars(NextStop)


(***************************************************************************)
(* Part 16.  Where the default-mode reward takes the expected output from  *)
(* (base.py 257-260, 386-417): the task descriptor's expected_output_json  *)
(* or, when the descriptor has no such entry, read_file.  The record       *)
(* `lookup` holds the descriptor entry (or its absence), the mapping that  *)
(* the in-sandbox file expected_test_output.json holds, the parsed report  *)
(* and the outcome of _calculate_reward_r2e.                               *)
(***************************************************************************)
\* A JSON document and json.loads of it.
JsonDumps(m) == [json |-> m]
JsonLoads(text) == text.json

\* `@DeprecationWarning def read_file(...)` binds the name read_file to
\* DeprecationWarning(<function>), an exception instance, in the class body.
ReadFileAttribute == [class |-> "DeprecationWarning", callable |-> FALSE]

\* self.read_file("expected_test_output.json"): calling an object that is not
\* callable raises TypeError before any command is sent to the sandbox.
CallReadFile(attr, content) ==
    IF attr.callable
    THEN [raised |-> FALSE, exc |-> "none", text |-> content, cats |-> 1]
    ELSE [raised |-> TRUE, exc |-> "TypeError", text |-> JsonDumps(<<>>), cats |-> 0]

\* try: self.ds["expected_output_json"]  except Exception: self.read_file(...)
ExpectedJson(l) ==
    IF l.hasKey
    THEN [raised |-> FALSE, exc |-> "none", text |-> l.descriptor, cats |-> 0]
    ELSE CallReadFile(ReadFileAttribute, l.content)

AfterCalculateRewardR2E(l) ==
    LET e == ExpectedJson(l)
    IN IF e.raised
       THEN [l EXCEPT !.pc = "done", !.raised = TRUE, !.exc = e.exc, !.cats = e.cats]
       ELSE [l EXCEPT !.pc = "done", !.cats = e.cats,
                      !.reward = RewardR2E(l.parse, JsonLoads(e.text))]

InitLookup ==
    /\ RunIdle /\ RewardIdle
    /\ LifeIdle /\ CreateIdle /\ TestsIdle /\ PatchIdle
    /\ file = NoFile /\ driver = NoDriver /\ copy = NoCopy
    /\ setup = NoSetup /\ flags = NoFlags /\ pod = NoPod
    /\ stop = NoCall /\ testReset = NoCall /\ git = NoCall
    /\ \E k \in BOOLEAN, p \in Mappings(R2EKeys, MaxEntries),
          m \in Mappings(R2EKeys, MaxEntries) :
         lookup = [pc |-> "start", hasKey |-> k,
                   descriptor |-> IF k THEN JsonDumps(m) ELSE JsonDumps(<<>>),
                   content |-> IF k THEN JsonDumps(<<>>) ELSE JsonDumps(m),
                   parse |-> p, raised |-> FALSE, exc |-> "none", cats |-> 0,
                   reward |-> -1]

CalculateRewardDefault ==
    /\ lookup.pc = "start"
    /\ lookup' = AfterCalculateRewardR2E(lookup)
    /\ UNCHANGED <<runVars, rewardVars, partVars, file, driver, copy, setup, flags, pod,
                   stop, testReset, git>>

NextLookup == CalculateRewardDefault

SpecLookup == InitLookup /\ [][NextLookup]_vars


(***************************************************************************)
(* Part 17.  The test-file reset of the smith-generated reward             *)
(* (base.py 167-179, 339-341).  A path is the sequence of its pieces, "/"  *)
(* being a piece of its own; an identifier is the pair of the path before  *)
(* the first "::" and the test name after it.  The record `testReset`      *)
(* holds the identifiers of the descriptor, the set of files whose content *)
(* differs from the one at base_commit, the commands sent to the sandbox   *)
(* and the files that differed when the test script ran.                   *)
(***************************************************************************)
MaxIds == 1

SmithPaths ==
    {<<"tests", "/", "test_", "a", ".py">>,
     <<"tests", "/", "b", "_test", ".py">>,
     <<"tests", "/", "checks", ".py">>,
     <<"test_", "util", "/", "helpers", ".py">>,
     <<"tests", "/", "test_", "data", ".json">>}

Identifiers == {<<p, "t">> : p \in SmithPaths}

\* x.split("::", 1)[0]
IdFile(x) == x[1]

\* os.path.basename
Basename(p) ==
    LET slashes == {i \in 1..Len(p) : p[i] = "/"}
        last == IF slashes = {} THEN 0 ELSE CHOOSE i \in slashes : \A j \in slashes : j <= i
    IN SubSeq(p, last + 1, Len(p))

StartsWithTest(b) == b # <<>> /\ b[1] = "test_"
EndsWithPy(b) == b # <<>> /\ b[Len(b)] = ".py"
EndsWithTestPy(b) == Len(b) >= 2 /\ b[Len(b) - 1] = "_test" /\ b[Len(b)] = ".py"

\* the filter of all_files: startswith('test_') and endswith('.py') or endswith('_test.py')
IsResetFile(f) ==
    \/ StartsWithTest(Basename(f)) /\ EndsWithPy(Basename(f))
    \/ EndsWithTestPy(Basename(f))

NamedFiles(t) == {IdFile(x) : x \in t.f2p \cup t.p2p}

ResetFiles(t) == {f \in NamedFiles(t) : IsResetFile(f)}

\* self.run(reset_command): the checkout of each listed file restores its
\* base_commit contents; a run that timed out or failed to start restored
\* only the files in `restored`; run returns either way and its result is
\* dropped
AfterResetCommand(t, o, restored) ==
    [t EXCEPT !.pc = "reset_done",
              !.issued = Append(@, "git_checkout_files"),
              !.resetEnded = o,
              !.differ = IF o = "ok" THEN @ \ ResetFiles(t) ELSE @ \ restored]

\* self.run("/run_tests.sh", timeout=timeout)
AfterTestScript(t) ==
    [t EXCEPT !.pc = "graded", !.issued = Append(@, "run_tests"), !.differAtRun = t.differ]

InitTestReset ==
    /\ RunIdle /\ RewardIdle
    /\ LifeIdle /\ CreateIdle /\ TestsIdle /\ PatchIdle
    /\ file = NoFile /\ driver = NoDriver /\ copy = NoCopy
    /\ setup = NoSetup /\ flags = NoFlags /\ pod = NoPod
    /\ stop = NoCall /\ lookup = NoCall /\ git = NoCall
    /\ \E a \in SUBSET Identifiers, b \in SUBSET Identifiers, d \in SUBSET SmithPaths :
         /\ Cardinality(a) <= MaxIds /\ Cardinality(b) <= MaxIds
         /\ testReset = [pc |-> "start", f2p |-> a, p2p |-> b, differ |-> d,
                         issued |-> <<>>, resetEnded |-> "none", differAtRun |-> {}]

TestResetFrame == UNCHANGED <<runVars, rewardVars, partVars, file, driver, copy, setup,
                              flags, pod, stop, lookup, git>>

ResetSwesmithTests(o, restored) ==
    /\ testReset.pc = "start"
    /\ restored \subseteq ResetFiles(testReset)
    /\ o = "ok" => restored = ResetFiles(testReset)
    /\ testReset' = AfterResetCommand(testReset, o, restored)
    /\ TestResetFrame

RunTestScript ==
    /\ testReset.pc = "reset_done"
    /\ testReset' = AfterTestScript(testReset)
    /\ TestResetFrame

NextTestReset ==
    \/ \E o \in {"ok", "timeout", "error"}, restored \in SUBSET SmithPaths :
           ResetSwesmithTests(o, restored)
    \/ RunTestScript

SpecTestReset == InitTestReset /\ [][NextTestReset]_vars


(***************************************************************************)
(* Part 18.  The git helpers of a session (base.py 446-468).  Commits are  *)
(* numbered along the branch, HEAD is the number of the checked-out        *)
(* commit.  Every helper sends its commands through run, which returns an  *)
(* (output, error_code) pair for every outcome of the command; the record  *)
(* `git` holds HEAD, self.current_commit, the helper that ran last, what   *)
(* it returned, and HEAD as it was when start_new_branch last ran.         *)
(***************************************************************************)
MaxCommits == 2
MaxOps == 4

GitOutcomes == {"ok", "timeout", "error"}

\* the output of run: stdout of the command, or the text run returns for a
\* command that timed out or could not be executed
Hash(n) == [hash |-> n]
RunOutput(o, text) ==
    IF o = "ok" THEN text
    ELSE IF o = "timeout" THEN [text |-> "The command took too long to execute"]
    ELSE [text |-> "Error"]

\* an instance attribute that was never assigned
Unset == [unset |-> TRUE]

GitStep(g, name) == [g EXCEPT !.op = name, !.ops = @ + 1, !.raised = FALSE]

\* output, error_code = self.run("git rev-parse HEAD");
\* self.current_commit = output.strip()
AfterStartNewBranch(g, o) ==
    [GitStep(g, "start_new_branch") EXCEPT
        !.current_commit = RunOutput(o, Hash(g.head)),
        !.headAtStart = g.head,
        !.started = TRUE,
        !.ret = RunOutput(o, Hash(g.head))]

\* git add . ; git commit -m '<step_idx>'
AfterCommitAfterStep(g, o) ==
    [GitStep(g, "commit_after_step") EXCEPT
        !.head = IF o = "ok" /\ g.head < MaxCommits THEN @ + 1 ELSE @,
        !.ret = RunOutput(o, [text |-> "commit"])]

\* git reset --hard HEAD~1
AfterUndoLastCommit(g, o) ==
    [GitStep(g, "undo_last_commit") EXCEPT
        !.head = IF o = "ok" /\ g.head > 0 THEN @ - 1 ELSE @,
        !.ret = RunOutput(o, [text |-> "reset"])]

\* git rev-parse HEAD; return output.strip()
AfterGetCurrentCommitHash(g, o) ==
    [GitStep(g, "get_current_commit_hash") EXCEPT !.ret = RunOutput(o, Hash(g.head))]

\* apply_patch and run change the work tree, not the branch
AfterOtherCall(g, name, o) ==
    [GitStep(g, name) EXCEPT !.ret = RunOutput(o, [text |-> "output"])]

\* git reset --soft {self.current_commit}: AttributeError while the attribute
\* was never assigned; otherwise HEAD moves to the named commit when the
\* argument names one and the command runs
AfterSoftGitReset(g, o) ==
    IF g.current_commit = Unset
    THEN [GitStep(g, "soft_git_reset") EXCEPT !.raised = TRUE, !.ret = [text |-> "AttributeError"]]
    ELSE [GitStep(g, "soft_git_reset") EXCEPT
             !.resetTo = g.current_commit,
             !.head = IF o = "ok" /\ g.current_commit \in {Hash(n) : n \in 0..MaxCommits}
                      THEN g.current_commit.hash ELSE @,
             !.ret = RunOutput(o, [text |-> "reset"])]

InitGit ==
    /\ RunIdle /\ RewardIdle
    /\ LifeIdle /\ CreateIdle /\ TestsIdle /\ PatchIdle
    /\ file = NoFile /\ driver = NoDriver /\ copy = NoCopy
    /\ setup = NoSetup /\ flags = NoFlags /\ pod = NoPod
    /\ stop = NoCall /\ lookup = NoCall /\ testReset = NoCall
    /\ \E h \in 0..MaxCommits :
         git = [pc |-> "ready", head |-> h, current_commit |-> Unset, op |-> "none",
                ops |-> 0, raised |-> FALSE, ret |-> [text |-> "none"],
                started |-> FALSE, headAtStart |-> 0, resetTo |-> Unset]

GitFrame == UNCHANGED <<runVars, rewardVars, partVars, file, driver, copy, setup, flags,
                        pod, stop, lookup, testReset>>

StartNewBranch(o) ==
    /\ git.pc = "ready" /\ git.ops < MaxOps
    /\ git' = AfterStartNewBranch(git, o)
    /\ GitFrame

CommitAfterStep(o) ==
    /\ git.pc = "ready" /\ git.ops < MaxOps
    /\ git' = AfterCommitAfterStep(git, o)
    /\ GitFrame

UndoLastCommit(o) ==
    /\ git.pc = "ready" /\ git.ops < MaxOps
    /\ git' = AfterUndoLastCommit(git, o)
    /\ GitFrame

GetCurrentCommitHash(o) ==
    /\ git.pc = "ready" /\ git.ops < MaxOps
    /\ git' = AfterGetCurrentCommitHash(git, o)
    /\ GitFrame

OtherCall(name, o) ==
    /\ git.pc = "ready" /\ git.ops < MaxOps
    /\ git' = AfterOtherCall(git, name, o)
    /\ GitFrame

SoftGitReset(o) ==
    /\ git.pc = "ready" /\ git.ops < MaxOps
    /\ git' = AfterSoftGitReset(git, o)
    /\ GitFrame

NextGit ==
    \E o \in GitOutcomes :
        \/ StartNewBranch(o)
        \/ CommitAfterStep(o)
        \/ UndoLastCommit(o)
        \/ GetCurrentCommitHash(o)
        \/ \E name \in {"apply_patch", "run"} : OtherCall(name, o)
        \/ SoftGitReset(o)

SpecGit == InitGit /\ [][NextGit]_vars

(***************************************************************************)
(* Claims about run and demux_run, checked under Spec.                     *)
(***************************************************************************)
HasCR(s) == \E i \in 1..Len(s) : s[i] = "CR"
HasESC(s) == \E i \in 1..Len(s) : s[i] = "ESC"
\* ESC [ parameters final-byte: a CSI sequence ("m" and "x" are final bytes).
HasCSI(s) ==
    \E i \in 1..Len(s) :
        /\ i + 1 <= Len(s) /\ s[i] = "ESC" /\ s[i + 1] = "["
        /\ LET j == SkipParams(s, i + 2) IN j <= Len(s) /\ s[j] \in {"m", "x"}
\* Every ESC of s begins a complete colour sequence ESC [ [0-9;]* m.
EveryEscStartsSgr(s) == \A i \in 1..Len(s) : s[i] = "ESC" => SgrEnd(s, i) # 0

ExecCompleted == future.kind = "result" /\ future.known
InnerTimeout == ExecCompleted /\ future.code = TimeoutSentinel
OuterDeadline == exc = "FuturesTimeoutError"

\* C1: on every backend, when the command ran into the inner `timeout t`
\* guard (exit status 124) or the caller's outer t+5 deadline fired, run
\* returns the fixed message "The command took too long to execute (>{t}s)"
\* with exit code "-1".
C1_TimeoutReturnsTooLong ==
    (pc = "returned" /\ method = "run" /\ (InnerTimeout \/ OuterDeadline))
        => ret = [raised |-> FALSE, outs |-> <<TooLong(timeout)>>, code |-> "-1"]

C1_Witness ==
    /\ pc = "returned" /\ method = "run" /\ backend = "kubernetes"
    /\ OuterDeadline /\ timeout = MaxTimeout
    /\ ret.code = "-1"

\* C2: when the exec primitive never returns, run still returns: once the
\* outer deadline has passed the caller can go on without the hung worker.
C2_HungExecStillReturns ==
    (pc \in {"waiting", "shutdown"} /\ execHangs /\ clock >= timeout + OuterMargin)
        => ENABLED (DeadlineFires \/ FinishInTime \/ FinishLate)

C4_NonzeroExitReturnsRaw ==
    (pc = "returned" /\ method = "run" /\ ExecCompleted
        /\ future.code \notin {0, TimeoutSentinel})
        => /\ ~ret.raised
           /\ ret.outs = <<Text(future.stdout \o future.stderr)>>
           /\ ret.code = "Error: Exit code " \o ToString(future.code)
           /\ (future.code = 1 => ret.code = "Error: Exit code 1")

C4_Witness ==
    /\ pc = "returned" /\ method = "run" /\ backend = "apptainer" /\ ExecCompleted
    /\ future.code = 2
    /\ HasCR(future.stdout) /\ HasCSI(future.stderr)
    /\ ret.outs[1].text = future.stdout \o future.stderr
    /\ ret.code = "Error: Exit code 2"

NormalizedRun == method = "run" /\ ExecCompleted /\ future.code = 0
NormalizedDemux == method = "demux_run" /\ backend = "apptainer" /\ future.kind = "result"

C6_ExitCodeStrings ==
    (pc = "returned" /\ ~ret.raised)
        => ret.code \in {"0", "-1"} \cup {"Error: Exit code " \o ToString(n) : n \in ExitCodes \ {0}}

\* What run returns for the outcome the current call met.
RunReturn ==
    IF future.kind = "abandoned" THEN Handle(backend, "run", timeout, exc)
    ELSE Outcome(backend, "run", timeout, future)

\* C7: demux_run classifies an outcome as run does: the same exit-code
\* string, and for a zero exit stdout and stderr each normalized.
C7_DemuxClassifiesAsRun ==
    (pc = "returned" /\ method = "demux_run" /\ future.kind \in {"result", "abandoned"})
        => /\ ret.code = RunReturn.code
           /\ (ExecCompleted /\ future.code = 0) =>
                 ret.outs = <<Text(Normalize(future.stdout)), Text(Normalize(future.stderr))>>

(***************************************************************************)
(* Claims about the default-mode reward, checked under SpecR2E.            *)
(***************************************************************************)
\* The mapping after every key is truncated at its first " - ": of the keys
\* with the same truncation the greatest one, in sorted order, gives the status.
TruncatedMap(m) ==
    [t \in {TruncKey(k) : k \in DOMAIN m} |->
        LET same == {k \in DOMAIN m : TruncKey(k) = t}
        IN m[CHOOSE k \in same : \A j \in same \ {k} : KeyLess(j, k)]]

ResolvesTo(name) ==
    LET exact == {i \in 1..Len(parse) : parse[i].key = name}
        holding == {i \in 1..Len(parse) : IsSubstring(name, parse[i].key)}
    IN IF exact # {} THEN exact
       ELSE {i \in holding : \A j \in holding : i <= j}

ExpectedNames == {StripFile(f2p[i]) : i \in 1..Len(f2p)} \cup {StripFile(p2p[i]) : i \in 1..Len(p2p)}

\* C9: the smith-generated reward is 1.0 only if every identifier of
\* FAIL_TO_PASS and PASS_TO_PASS, stripped of its file prefix, resolves by
\* exact key or by substring fallback to an entry with status PASSED; one
\* identifier that does not resolve, or resolves to another status, gives 0.0.
C9_RewardOnlyIfAllPassed ==
    (mode = "swesmith" /\ rpc = "done") =>
        /\ reward.value \in {0, 1}
        /\ reward.value = 1 =>
              \A name \in ExpectedNames :
                  /\ ResolvesTo(name) # {}
                  /\ \A i \in ResolvesTo(name) : parse[i].status = "PASSED"
        /\ (\E name \in ExpectedNames :
                \/ ResolvesTo(name) = {}
                \/ \E i \in ResolvesTo(name) : parse[i].status # "PASSED")
              => reward.value = 0

C9_Witness ==
    /\ mode = "swesmith" /\ rpc = "done"
    /\ reward.value = 1
    /\ f2p = << << <<"f">>, <<"t">> >> >>
    /\ p2p = << << <<"f">>, <<"u">> >> >>
    /\ parse = <<[key |-> <<"m", ".", "t">>, status |-> "PASSED"], [key |-> <<"u">>, status |-> "PASSED"]>>

(***************************************************************************)
(* Claims about the verified-benchmark reward, checked under SpecSwebench. *)
(***************************************************************************)
\* C10: the verified-benchmark reward is 1 exactly when the resolution
\* status the grading collaborator computed from the status map and the
\* evaluation reference (instance id, FAIL_TO_PASS, PASS_TO_PASS) is "fully
\* resolved"; the status map handed over is empty when the raw output holds
\* a failure marker, and the parser's map otherwise.
C10_RewardIffFullyResolved ==
    (mode = "swebench" /\ rpc = "done") =>
        /\ reward.value \in {0, 1}
        /\ reward.value = 1 <=> verdict = "RESOLVED_FULL"
        /\ markers # {} => handed.map = <<>>
        /\ markers = {} => handed.map = parse
        /\ handed.ref = [instance_id |-> "instance", FAIL_TO_PASS |-> f2p, PASS_TO_PASS |-> p2p]

C10_Witness ==
    /\ mode = "swebench" /\ rpc = "done"
    /\ markers = {"TESTS_TIMEOUT"}
    /\ DOMAIN parse = BenchTests
    /\ handed.map = <<>>
    /\ verdict = "RESOLVED_NO"
    /\ reward.value = 0

(***************************************************************************)
(* Claims about the three reward strategies together.                      *)
(***************************************************************************)
\* The parser made an empty mapping of the test output.
Unparsable == DOMAIN parse = {}

\* Default mode: a test of the expected mapping is missing from the report.
IncompleteR2E ==
    /\ mode = "r2e"
    /\ \E k \in DOMAIN expected : TruncKey(k) \notin {TruncKey(j) : j \in DOMAIN parse}

\* C11: grading fails closed: whatever the test output was, the reward is
\* exactly 0 or 1, and it is 0 when the parser made an empty mapping of the
\* output or when a test of the expected mapping is missing from the report.
C11_GradingFailsClosed ==
    rpc = "done" =>
        /\ reward.value \in {0, 1}
        /\ (Unparsable \/ IncompleteR2E) => reward.value = 0

\* C12: in every mode _calculate_reward returns the pair (reward, rawOutput)
\* when the output is requested and the reward alone when it is not.
C12_ResultShapeFollowsFlag ==
    rpc = "done" => (reward.pair <=> getOutput)

(***************************************************************************)
(* Claims about the lifecycle of sessions, checked under SpecLife.         *)
(***************************************************************************)
\* The live sandboxes among those the session started or took over.
LiveSandboxes(s) == {n \in Names : n \in session[s].made /\ world[n] = "running"}

\* C13: on every backend reset() stops the session's sandbox and starts a new
\* one under the same session name: after a reset during which no primitive
\* of the control plane failed, the session owns exactly one live sandbox and
\* its session name is the name it had before.
C13_ResetKeepsNameAndSandbox ==
    (op.kind = "reset" /\ ~op.faulty) =>
        /\ ~op.raised
        /\ session[op.session].container_name = op.nameBefore
        /\ Cardinality(LiveSandboxes(op.session)) = 1

\* C14: after close() returned, no sandbox the session started is still live.
C14_CloseLeavesNothingLive ==
    op.kind = "close" => LiveSandboxes(op.session) = {}

\* C15: when the backend fails to start the sandbox, constructing the session
\* raises an error that carries the control plane's error; a construction that
\* completes normally leaves a session with a live sandbox.
C15_FailedStartFailsConstruction ==
    op.kind = "construct" =>
        /\ op.startFailed => (op.raised /\ op.exc \in {"APIError", "ApiException", "RuntimeError"})
        /\ ~op.raised => LiveSandboxes(op.session) # {}

\* C16: two sessions that are alive at the same time have different session
\* names.
C16_SessionNamesDiffer ==
    \A s, t \in Sessions :
        (s # t /\ session[s].state = "alive" /\ session[t].state = "alive"
             /\ session[s].container_name # None)
            => session[s].container_name # session[t].container_name

(***************************************************************************)
(* Claims about the pod-creation loop, checked under SpecCreate.           *)
(***************************************************************************)
AllTransient(q) == \A i \in 1..Len(q) : q[i] \in TransientStatuses

\* C17: the create API is called at most 5 times; a call is followed by
\* another only after a transient status; the loop raises after the 5th
\* transient failure, stops at the first success, and on a non-transient
\* status raises at once, without a sleep after it.
C17_CreateRetriesOnlyTransient ==
    /\ Len(create.calls) <= MaxRetries
    /\ \A i \in 1..(Len(create.calls) - 1) : create.calls[i] \in TransientStatuses
    /\ create.pc = "loop" => (AllTransient(create.calls) /\ Len(create.calls) < MaxRetries)
    /\ create.pc = "retry_limit" <=> (AllTransient(create.calls) /\ Len(create.calls) = MaxRetries)
    /\ create.pc = "created" <=> (create.calls # <<>> /\ create.calls[Len(create.calls)] = 201)
    /\ create.pc = "api_error" <=>
           (create.calls # <<>> /\ create.calls[Len(create.calls)] \notin TransientStatuses \cup {201})
    /\ Len(create.slept) = Cardinality({i \in 1..Len(create.calls) : create.calls[i] \in TransientStatuses})

C17_Witness ==
    /\ create.pc = "api_error"
    /\ Len(create.calls) = 3
    /\ create.calls[3] = 400
    /\ create.slept = <<5, 10>>

(***************************************************************************)
(* Claims about the search for the run script, checked under SpecTests.    *)
(***************************************************************************)
Locations == TestScriptLocations(dirs)

\* The index of the first candidate whose script exists, 0 if there is none.
FirstExisting ==
    LET there == {i \in 1..Len(Locations) : Canonical(Locations[i]) \in fs}
    IN IF there = {} THEN 0 ELSE CHOOSE i \in there : \A j \in there : i <= j

\* C18 as stated: when the first existing script is the k-th candidate,
\* run_tests probes the candidates 1..k in order and executes exactly the
\* k-th, once.
C18_FirstExistingScriptRuns ==
    (tests.pc = "returned" /\ tests.method = "run_tests" /\ FirstExisting # 0) =>
        /\ tests.probed = SubSeq(Locations, 1, FirstExisting)
        /\ tests.executed = <<Locations[FirstExisting]>>

\* C18 amended: run_tests probes the candidates in their fixed order; no
\* candidate is probed after a probe that printed "exists"; the script of
\* that probe, which exists, is executed exactly once and no other is; a
\* candidate whose probe times out or fails is passed over like a missing one.
C18_FirstAnsweringScriptRuns ==
    tests.method = "run_tests" =>
        /\ tests.probed = SubSeq(Locations, 1, Len(tests.probed))
        /\ \A i \in 1..(Len(tests.delivered) - 1) : tests.delivered[i] # "exists"
        /\ Len(tests.executed) <= 1
        /\ \A i \in 1..Len(tests.executed) : Canonical(tests.executed[i]) \in fs
        /\ tests.pc = "returned" =>
               IF tests.delivered[Len(tests.delivered)] = "exists"
               THEN tests.executed = <<tests.probed[Len(tests.probed)]>>
               ELSE tests.executed = <<>> /\ Len(tests.probed) = Len(Locations)

C18_Witness ==
    /\ tests.pc = "returned"
    /\ tests.method = "run_tests"
    /\ tests.delivered = <<"absent", "absent", "exists">>
    /\ tests.executed = <<"/tmp/run_tests.sh">>
    /\ "/testbed/run_tests.sh" \in fs

\* Every candidate is missing or its probe did not complete.
NothingFound ==
    \A i \in 1..Len(Locations) :
        \/ Canonical(Locations[i]) \notin fs
        \/ (i <= Len(tests.delivered) /\ tests.delivered[i] = "failed")

\* C19: when none of the five scripts exists, or every probe fails, run_tests
\* and demux_run_tests return the output "No test script found in any expected
\* location" with exit code "-1", execute no script and do not raise.
C19_NothingFoundGivesSentinel ==
    (tests.pc = "returned" /\ NothingFound) =>
        /\ ~tests.ret.raised
        /\ tests.ret.code = "-1"
        /\ tests.ret.outs[Len(tests.ret.outs)] = NoScriptFound
        /\ tests.executed = <<>>

C19_Witness ==
    /\ tests.pc = "returned"
    /\ tests.method = "demux_run_tests"
    /\ fs # {}
    /\ tests.delivered = <<"failed", "failed", "failed", "failed", "failed">>
    /\ tests.ret.code = "-1"

(***************************************************************************)
(* Claims about patches, checked under SpecPatch.                          *)
(***************************************************************************)
\* C20: for a patch that applied cleanly, apply_patch followed by
\* reverse_patch leaves the working tree as it was before: get_patch returns
\* the diff it returned before apply_patch (the empty diff: the tree was
\* clean).
C20_ApplyThenReverseRestores ==
    (patched.calls = <<"apply_patch", "reverse_patch">> /\ patched.codes[1] = "0") =>
        /\ tree = patched.before
        /\ GetPatch(patched.before, tree) = EmptyDiff

(***************************************************************************)
(* Claims about create_file, checked under SpecFile.                       *)
(***************************************************************************)
\* C21: create_file(path, content) returns normally and a read of path
\* inside the sandbox then yields exactly content, for every text content
\* and every path (relative, nested in a directory, absolute); while the
\* call has not moved the file into place, path shows no content.
C21_CreateThenReadYieldsContent ==
    /\ file.pc = "idle" => ReadFile(file.files, file.path) = NoContent
    /\ file.pc = "done" =>
           /\ ~file.raised
           /\ ReadFile(file.files, file.path) = [found |-> TRUE, text |-> file.content]

(***************************************************************************)
(* Claims about the golden-patch driver, checked under SpecDriver.         *)
(***************************************************************************)
\* C22: the driver invokes the reward computation only after apply_patch
\* returned exit code "0"; when apply_patch returned another exit code, no
\* grading is run and the result returned has success = False.
C22_GradesOnlyAfterCleanApply ==
    /\ driver.graded > 0 => driver.applyCode = "0"
    /\ (driver.pc = "returned" /\ driver.applyCode \notin {"none", "0"}) =>
           (driver.graded = 0 /\ ~driver.success)

(***************************************************************************)
(* Claims about copy-in, checked under SpecCopy.                           *)
(***************************************************************************)
\* C23: copy-in never raises on any backend: whatever fails during the
\* copy-in (also after the retry budget of the cluster backend is used up),
\* apply_patch, reverse_patch and create_file end by returning an
\* (output, exitCode) pair and never by an exception.
C23_CopyInNeverRaises ==
    copy.pc = "done" => (~copy.raised /\ copy.ret.code # "none")

InstallEntered == setup.backend = "apptainer" /\ Len(setup.install) > 0

InstallFailed(k) == k <= Len(setup.install) /\ setup.install[k][2] # "ok"

\* C25: the install of setup issues the five package-manager invocations in
\* their fixed order, invocation k+1 if and only if invocations 1..k all
\* failed (nonzero exit, timeout or error), and none after the first success.
C25_InstallFallsBackInOrder ==
    (InstallEntered /\ setup.pc = "done") =>
        /\ \A k \in 1..Len(setup.install) : setup.install[k][1] = InstallCmds[k]
        /\ \A k \in 1..(Len(InstallCmds) - 1) :
               (Len(setup.install) >= k + 1) <=> (\A j \in 1..k : InstallFailed(j))

C27_ExactlyOneMode ==
    flags.pc # "new" =>
        /\ ~(flags.swebench_verified /\ flags.swesmith)
        /\ \E m \in SetupModes :
               /\ flags.built = {m}
               /\ flags.setupBy \in {"none", m}
               /\ flags.rewardBy \in {"none", m}

(***************************************************************************)
(* Claims about the start of a pod, checked under SpecPod.                 *)
(***************************************************************************)
\* The watch stream itself failed, and what followed.
AfterStreamError ==
    pod.via = "stream_error" =>
        /\ pod.reads <= 1
        /\ PodEnded(pod) =>
               /\ pod.reads = 1
               /\ (pod.pc = "started") <=> (pod.readPhase = "Running")

\* A watch event showing Failed or Succeeded makes the start fail.
AfterFinalPhaseEvent ==
    (PodEnded(pod) /\ pod.lastEvent \in FinalPhases) => (pod.pc = "failed" /\ pod.raised)

\* C28 as stated: in the readiness wait a watch event with phase Running
\* ends the wait with success, a watch event with phase Failed or Succeeded
\* makes start fail with an error, and an error of the watch stream leads to
\* exactly one status read, after which start succeeds if and only if that
\* read shows Running.
C28_ReadinessWaitAsStated ==
    /\ (PodEnded(pod) /\ pod.lastEvent = "Running") => pod.pc = "started"
    /\ AfterFinalPhaseEvent
    /\ AfterStreamError

\* C28, amended: the Running event ends the wait with success when it
\* arrives within the 1200 seconds of the elapsed-time check; the rest as
\* stated.
C28_ReadinessWaitWithinLimit ==
    /\ (PodEnded(pod) /\ pod.lastEvent = "Running" /\ ~pod.late) => pod.pc = "started"
    /\ AfterFinalPhaseEvent
    /\ AfterStreamError

\* A Running event arrived in time and the start succeeded.
C28_Witness ==
    /\ pod.pc = "started"
    /\ pod.via = "running_event"
    /\ pod.lastEvent = "Running"
    /\ ~pod.late

\* C29: the cluster start completes normally only if the pod was observed
\* in phase Running, by a watch event or by the fallback status read: not
\* when the watch stream ends without a Running event, and not when a pod
\* of that name already exists in another phase.
C29_StartedOnlyIfObservedRunning ==
    pod.pc = "started" =>
        \/ pod.observedRunning
        \/ (pod.via = "existing" /\ pod.phase = "Running")

\* C30: when the start fails after the pod was created, the failure cleanup
\* of start_container issues a delete for that pod.
C30_FailedStartDeletesCreatedPod ==
    (pod.pc = "failed" /\ pod.created) => pod.deletes >= 1


(***************************************************************************)
(* C31.  Cluster close: the first request is a delete with zero grace      *)
(* period and the watch starts only after it; when the watch ended without *)
(* a DELETED event (also when the pod was gone before the watch began) the *)
(* pod is re-read exactly once; a 404 on the re-read is logged as          *)
(* confirmed deletion, nothing is printed as an error and no further       *)
(* delete is sent; a pod that still exists gets exactly one forced delete; *)
(* and close always returns, never raising.                                *)
(***************************************************************************)
Count(seq, x) == Cardinality({i \in 1..Len(seq) : seq[i] = x})

C31_Requests ==
    /\ stop.pc \in {"watch", "reread", "force"} =>
         stop.calls # <<>> /\ stop.calls[1] = "delete_grace_0"
    /\ Count(stop.calls, "delete_grace_0") <= 1
    /\ Count(stop.calls, "read") <= 1
    /\ Count(stop.calls, "delete_force") <= 1
    /\ stop.pc = "force" => stop.calls = <<"delete_grace_0", "read">>
    /\ (stop.pc = "returned" /\ Count(stop.calls, "read") = 1) =>
         \/ /\ stop.calls = <<"delete_grace_0", "read">>
            /\ stop.printed = "none" => stop.logged # <<>>
         \/ stop.calls = <<"delete_grace_0", "read", "delete_force">>
    /\ (stop.pc = "returned" /\ stop.missed /\ stop.printed = "none") =>
         /\ stop.calls = <<"delete_grace_0", "read">>
         /\ stop.logged[Len(stop.logged)] \in {"confirmed_deleted", "error_checking"}
    /\ (stop.pc = "returned" /\ Count(stop.calls, "delete_force") = 1) =>
         "still_exists" \in {stop.logged[i] : i \in 1..Len(stop.logged)}
    /\ ~stop.raised

C31_ForcedWitness ==
    /\ stop.pc = "returned"
    /\ stop.calls = <<"delete_grace_0", "read", "delete_force">>
    /\ ~stop.confirmed


(***************************************************************************)
(* C32.  Cluster copy-in: at most 5 attempts are made and the loop stops   *)
(* at the first success; whenever an attempt begins the read position of   *)
(* the archive is 0, so every attempt (the retries too) hands over the     *)
(* whole archive; and after the 5th failed attempt the error of that       *)
(* attempt is raised.                                                      *)
(***************************************************************************)
C32_CopyInRetriesWholeArchive ==
    copy.pc # "idle" /\ copy.backend = "kubernetes" =>
        /\ copy.attempt <= CopyMaxRetries
        /\ Len(copy.sent) <= CopyMaxRetries
        /\ \A i \in 1..Len(copy.sent) : copy.sent[i] = ArchiveLen
        /\ copy.pc = "copying" =>
               /\ copy.pos = 0
               /\ Len(copy.sent) = copy.attempt - 1
               /\ Len(copy.logged) = Len(copy.sent)
        /\ (copy.pc = "done" /\ ~copy.raised) =>
               /\ Len(copy.sent) = copy.attempt
               /\ Len(copy.logged) = Len(copy.sent) - 1
        /\ copy.raised =>
               /\ Len(copy.sent) = CopyMaxRetries
               /\ Len(copy.logged) = CopyMaxRetries
               /\ copy.exc = copy.logged[CopyMaxRetries]

\* a retry after a failed write (the stream had been read to its end) that
\* succeeded and sent the whole archive again
C32_Witness ==
    /\ copy.pc = "done" /\ copy.backend = "kubernetes" /\ ~copy.raised
    /\ copy.logged = <<"write_fails", "connect_fails">>
    /\ copy.sent = <<ArchiveLen, ArchiveLen, ArchiveLen>>

\* the fifth attempt failed and its error was raised
C32_RaisedWitness ==
    /\ copy.raised /\ copy.backend = "kubernetes"
    /\ Len(copy.sent) = CopyMaxRetries
    /\ copy.exc = "write_fails"


(***************************************************************************)
(* C33.  The waits between successive retries of the cluster backend are   *)
(* wait(1) = 5 and wait(k+1) = min(2 * wait(k), 60), that is 5, 10, 20,    *)
(* 40, 60: the k-th sleep of the pod-creation loop and the k-th sleep of   *)
(* the copy-in loop last wait(k) seconds, no wait is shorter than the one  *)
(* before it and none is longer than 60 seconds.                           *)
(***************************************************************************)
RECURSIVE Wait(_)
Wait(k) == IF k = 1 THEN 5 ELSE Min(2 * Wait(k - 1), 60)

FollowsWait(slept) ==
    /\ \A k \in 1..Len(slept) : slept[k] = Wait(k) /\ slept[k] <= 60
    /\ \A k \in 1..(Len(slept) - 1) : slept[k] <= slept[k + 1]

C33_RetryWaitsDoubleUpToSixty ==
    /\ create.pc # "idle" => FollowsWait(create.slept)
    /\ copy.pc # "idle" => FollowsWait(copy.slept)

\* creation slept five times, the last time at the cap, and the copy-in
\* slept before each of its four retries
C33_Witness ==
    /\ create.slept = <<5, 10, 20, 40, 60>>
    /\ copy.slept = <<5, 10, 20, 40>>


(***************************************************************************)
(* C34.  Default mode, descriptor without expected_output_json: the reward *)
(* is computed against the content of the in-sandbox file                  *)
(* expected_test_output.json, obtained through read_file, and equals the   *)
(* reward that the same content would give as the descriptor's entry.      *)
(***************************************************************************)
C34_RewardFromSandboxFile ==
    (lookup.pc = "done" /\ ~lookup.hasKey) =>
        /\ ~lookup.raised
        /\ lookup.reward = RewardR2E(lookup.parse, JsonLoads(lookup.content))

\* the descriptor has no entry, the sandbox file matches the parsed report,
\* and the reward computation ended in TypeError without reading the file
C34_Witness ==
    /\ lookup.pc = "done" /\ ~lookup.hasKey
    /\ lookup.raised /\ lookup.exc = "TypeError" /\ lookup.cats = 0
    /\ DOMAIN lookup.parse # {}
    /\ RewardR2E(lookup.parse, JsonLoads(lookup.content)) = 1


(***************************************************************************)
(* C35.  Smith-generated mode: the test-file reset is sent before the test *)
(* script, and when the script runs for grading every file named by a      *)
(* FAIL_TO_PASS or PASS_TO_PASS identifier has its base_commit contents,   *)
(* whatever the patch changed in it.                                       *)
(***************************************************************************)
C35_ResetBeforeScript ==
    /\ testReset.pc = "graded" => testReset.issued = <<"git_checkout_files", "run_tests">>
    /\ testReset.pc \in {"start", "reset_done"} => "run_tests" \notin
           {testReset.issued[i] : i \in 1..Len(testReset.issued)}

C35_NamedFilesAtBaseCommit ==
    /\ testReset.pc # "idle" => C35_ResetBeforeScript
    /\ testReset.pc = "graded" => NamedFiles(testReset) \cap testReset.differAtRun = {}

\* the reset command ended normally, yet the script ran on a changed file
\* that an identifier names
C35_Witness ==
    /\ testReset.pc = "graded" /\ testReset.resetEnded = "ok"
    /\ <<"tests", "/", "checks", ".py">> \in NamedFiles(testReset) \cap testReset.differAtRun


(***************************************************************************)
(* C36.  The smith-generated reward depends on the parsed mapping only as  *)
(* a set of (identifier, status) pairs: every report with the same pairs   *)
(* in another iteration order gives the reward that was returned, also     *)
(* when an expected identifier is a substring of several parsed keys that  *)
(* carry different statuses.                                               *)
(***************************************************************************)
Pairs(rep) == {rep[i] : i \in 1..Len(rep)}

C36_RewardIgnoresIterationOrder ==
    (mode = "swesmith" /\ rpc = "done") =>
        \A q \in SmithReports :
            Pairs(q) = Pairs(parse) => reward.value = RewardSwesmith(q, f2p, p2p)

\* the expected name t is a substring of the keys m.t and n.t, the first in
\* iteration order passed and the other failed: reward 1, and 0 for the
\* same pairs in the other order
C36_Witness ==
    /\ mode = "swesmith" /\ rpc = "done"
    /\ parse = <<[key |-> <<"m", ".", "t">>, status |-> "PASSED"],
                 [key |-> <<"n", ".", "t">>, status |-> "FAILED"]>>
    /\ f2p = << << <<"f">>, <<"t">> >> >> /\ p2p = <<>>
    /\ reward.value = 1
    /\ RewardSwesmith(<<parse[2], parse[1]>>, f2p, p2p) = 0


(***************************************************************************)
(* C37.  With serialized callers at most one exec is in flight per         *)
(* session: a worker is executing against the sandbox only while its call  *)
(* of run is waiting for it (in future.result or in the executor's         *)
(* shutdown), and when run has returned on any backend, also after the     *)
(* outer deadline fired, the worker of that call has ended.                *)
(***************************************************************************)
C37_NoWorkerOutlivesRun ==
    /\ worker = "running" => pc \in {"waiting", "shutdown"}
    /\ pc \in {"idle", "returned"} => worker \in {"none", "done"}
    /\ (pc = "returned" /\ exc = "FuturesTimeoutError") =>
           (worker = "done" /\ future = Abandoned)

\* run returned on the cluster backend because the outer deadline fired, and
\* the abandoned worker had ended by then
C37_Witness ==
    /\ backend = "kubernetes" /\ method = "run"
    /\ pc = "returned"
    /\ exc = "FuturesTimeoutError"
    /\ future = Abandoned
    /\ worker = "done"


(***************************************************************************)
(* C38.  time_golden_patch_execution closes every environment it           *)
(* initialized before it returns, on every path: when apply_patch or the   *)
(* reward computation raised after the environment was created, env.close  *)
(* has still been called by the time the function returns.                 *)
(***************************************************************************)
C38_EveryInitializedEnvClosed ==
    (driver.pc = "returned" /\ driver.caught \in {"init", "apply", "reward", "close", "none"}) =>
        (driver.envOpen => driver.closes >= 1)

\* the reward computation raised on an open environment and the function
\* returned without a call of env.close
C38_Witness ==
    /\ driver.pc = "returned"
    /\ driver.caught = "reward"
    /\ driver.envOpen
    /\ driver.closes = 0


(***************************************************************************)
(* C39.  The remembered commit hash is written only by start_new_branch    *)
(* and equals HEAD as it was when start_new_branch last ran; it is left    *)
(* unchanged by commit_after_step, undo_last_commit,                       *)
(* get_current_commit_hash, apply_patch and run, so that soft_git_reset    *)
(* resets to the commit that was HEAD when start_new_branch ran.           *)
(***************************************************************************)
C39_RememberedCommitIsHeadAtStart ==
    (git.pc = "ready" /\ git.started) =>
        /\ git.current_commit = Hash(git.headAtStart)
        /\ (git.op = "soft_git_reset" /\ ~git.raised) => git.resetTo = Hash(git.headAtStart)

\* the frame half of C39: a step that changes self.current_commit is a step
\* of start_new_branch
C39_OnlyStartNewBranchWrites ==
    [][(git.pc = "ready" /\ git'.current_commit # git.current_commit)
          => git'.op = "start_new_branch"]_vars

\* start_new_branch ran while git rev-parse HEAD timed out, commits were
\* made, and soft_git_reset was called with the remembered text
C39_Witness ==
    /\ git.pc = "ready" /\ git.started
    /\ git.op = "soft_git_reset"
    /\ git.resetTo = [text |-> "The command took too long to execute"]
    /\ git.head # git.headAtStart

====
